---- MODULE Spec2Model ----
(***************************************************************************)
(* A state-machine model of simpleaf's orchestration layer (src/main.rs):  *)
(* build_ref_and_index, map_and_quant and run_workflow.  A state is the    *)
(* position of the single orchestrating thread (pc), the command it is     *)
(* executing (cur), that command's local variables (loc), the file system  *)
(* (files, json), the one child process it may be waiting for (proc) and   *)
(* the locals of run_workflow (rw).  trace is a history of the observable  *)
(* events (spawns, exits, file writes, command starts and returns).        *)
(*                                                                         *)
(* Paths and command lines are strings; Option<PathBuf>::None is the empty *)
(* string and Option<number>::None is NoneU.                               *)
(***************************************************************************)
EXTENDS Integers, Sequences, FiniteSets, TLC

VARIABLES
    entry,      \* the function the process was entered with, and its argument
    rp,         \* the tool registry (ReqProgs) found under ALEVIN_FRY_HOME
    hostpar,    \* std::thread::available_parallelism(): 0 = Err, else Ok(n)
    pc,         \* position of the orchestrating thread
    cur,        \* the Commands value the running command function was given
    org,        \* where cur comes from: workflow file, record, key (0,0,"cli")
    loc,        \* local variables of the running command function
    files,      \* the paths that exist
    json,       \* contents of the JSON files, by path
    proc,       \* the child process being waited for ("none" if none)
    rw,         \* locals of run_workflow
    result,     \* what the process ended with ([k |-> "running"] until then)
    trace       \* history of observable events

vars == <<entry, rp, hostpar, pc, cur, org, loc, files, json, proc, rw, result, trace>>

----------------------------------------------------------------------------
(* Bounds of the model *)

\* largest duration (in ticks) a child process is observed to take
MaxDur == 2
\* largest thread count requested on a direct command line
MaxThreads == 2
\* largest host parallelism
MaxPar == 1
\* largest number of workflow files given to run-workflow
MaxFiles == 2
\* a read length below the 5 bases subtracted from it
ShortRlen == 3
\* an ordinary read length
LongRlen == 91
\* the longest decimal numbers read from a command line
U32Digits == 9
\* a number of cells to force or expect
Cells == 500
\* a k-mer length below the default minimizer length
ShortKmer == 15

(* Program constants *)
DefaultThreads == 16
DefaultKmer == 31
DefaultMinimizer == 19
DefaultMinReads == 10

NoneU == -1
NoPath == ""

----------------------------------------------------------------------------
(* Strings and paths *)

\* PathBuf::join for relative components
Join(a, b) == a \o "/" \o b

RECURSIVE JoinWith(_, _)
\* Vec<String>::join(sep)
JoinWith(v, sep) ==
    IF v = <<>> THEN ""
    ELSE IF Len(v) = 1 THEN v[1]
    ELSE v[1] \o sep \o JoinWith(Tail(v), sep)

\* prog_utils::get_cmd_line_string: program and arguments joined by blanks
get_cmd_line_string(argv) == JoinWith(argv, " ")

\* prog_utils::check_files_exist
check_files_exist(fs, paths) == \A i \in 1..Len(paths) : paths[i] \in fs

Opt(flag, args) == IF flag THEN args ELSE <<>>

----------------------------------------------------------------------------
(* Results and events *)

Running == [k |-> "running", at |-> ""]
Ok == [k |-> "ok", at |-> ""]
Err(at) == [k |-> "err", at |-> at]
Panicked(at) == [k |-> "panic", at |-> at]

Ev(o, e, s, a) ==
    [e |-> e, s |-> s, a |-> a, fn |-> o.fn, f |-> o.f, r |-> o.r, key |-> o.key]

\* the current state as a record; the actions below compute successor records
S == [pc |-> pc, cur |-> cur, org |-> org, loc |-> loc, files |-> files,
      json |-> json, proc |-> proc, rw |-> rw, result |-> result, trace |-> trace]

Apply(o) ==
    /\ pc' = o.pc
    /\ cur' = o.cur
    /\ org' = o.org
    /\ loc' = o.loc
    /\ files' = o.files
    /\ json' = o.json
    /\ proc' = o.proc
    /\ rw' = o.rw
    /\ result' = o.result
    /\ trace' = o.trace
    /\ UNCHANGED <<entry, rp, hostpar>>

Log(s, e, st, a) == [s EXCEPT !.trace = Append(@, Ev(s.org, e, st, a))]

\* a `?` that is missing: the replay loop goes on after an error
ReturnAndGoOn(s, res) ==
    LET t == Log(s, "return", res.k, <<res.at>>) IN
    IF s.org.key \in {"index", "quant"}
    THEN [t EXCEPT !.pc = "rw_run", !.proc = "none"]
    ELSE [t EXCEPT !.pc = "done", !.result = res, !.proc = "none"]

\* `return res` from a command function.  Called directly, the process ends
\* with res; called from run_workflow, `?` ends run_workflow with an Err and
\* lets its loop continue after an Ok.
Return(s, res) ==
    LET t == Log(s, "return", res.k, <<res.at>>) IN
    IF s.org.key \in {"index", "quant"} /\ res.k = "ok"
    THEN [t EXCEPT !.pc = "rw_run", !.proc = "none"]
    ELSE [t EXCEPT !.pc = "done", !.result = res, !.proc = "none"]

\* an error return that first removes the command's output directory
BailAndRollBack(s, at) ==
    Return([s EXCEPT !.files = IF "output" \in DOMAIN s.cur THEN @ \ {s.cur.output} ELSE @],
           Err(at))

Bail(s, at) == Return(s, Err(at))

\* a panic unwinds through every caller and ends the process
Panic(s, at) ==
    [Log(s, "panic", at, <<>>) EXCEPT !.pc = "done", !.result = Panicked(at), !.proc = "none"]

\* std::fs::write(path, content)
WriteJson(s, path, content) ==
    [Log(s, "write", path, <<>>) EXCEPT
        !.files = @ \cup {path},
        !.json = [p \in DOMAIN @ \cup {path} |-> IF p = path THEN content ELSE @[p]]]

\* `mkdir -p dir` run through cmd_lib
Mkdir(s, dir) == [Log(s, "mkdir", dir, <<>>) EXCEPT !.files = @ \cup {dir}]

\* a child process started and not waited for
SpawnUnwaited(s, stage, argv, nextpc) ==
    [Log(s, "spawn", stage, argv) EXCEPT !.pc = nextpc]

\* a child process has been started and is being waited for
Spawn(s, stage, argv, nextpc) ==
    [Log(s, "spawn", stage, argv) EXCEPT !.proc = stage, !.pc = nextpc]

\* the clamp applied even when the parallelism is unknown
ClampThreadsAlways(t, h) == IF t > h THEN h ELSE t

\* the thread clamp that Index and Quant both apply
ClampThreads(t, h) == IF h # 0 /\ t > h THEN h ELSE t

Durations == 1..MaxDur

----------------------------------------------------------------------------
(* build_ref_and_index *)

IsBuildingRef(c) == c.fasta # NoPath /\ c.gtf # NoPath

\* `read_len - 5` on u32, as the decimal text format! prints.  Below 5 the
\* subtraction panics when the build checks overflow ("panic") and wraps to
\* 2^32 - 5 + r = 4294967291 + r when it does not.
FlankLengths(r) ==
    IF r >= 5 THEN {ToString(r - 5)} ELSE {"panic", "429496729" \o ToString(r + 1)}

RefFileName(c, fl) ==
    IF c.ref_type = "SplicedIntronic" THEN "splici_fl" \o fl \o ".fa"
    ELSE "spliceu.fa"

T2gFileName(c, fl) ==
    IF c.ref_type = "SplicedIntronic" THEN "splici_fl" \o fl \o "_t2g_3col.tsv"
    ELSE "spliceu_t2g_3col.tsv"

PyroeArgv(c, outref) ==
    <<"pyroe">>
    \o (IF c.ref_type = "SplicedIntronic" THEN <<"make-splici">> ELSE <<"make-spliceu">>)
    \o Opt(c.dedup, <<"--dedup-seqs">>)
    \o Opt(c.spliced # NoPath, <<"--extra-spliced", c.spliced>>)
    \o Opt(c.unspliced # NoPath, <<"--extra-unspliced", c.unspliced>>)
    \o <<c.fasta, c.gtf>>
    \o Opt(c.ref_type = "SplicedIntronic", <<ToString(c.rlen)>>)
    \o <<outref>>

PyroeInputs(c) ==
    <<c.fasta, c.gtf>> \o Opt(c.spliced # NoPath, <<c.spliced>>)
                       \o Opt(c.unspliced # NoPath, <<c.unspliced>>)

PiscemIndexArgv(c, stem, ref, threads) ==
    <<"piscem", "build", "-k", ToString(c.kmer_length), "-m", ToString(c.minimizer_length),
      "-o", stem, "-s", ref>>
    \o Opt(c.overwrite, <<"--overwrite">>)
    \o <<"--threads", ToString(threads)>>

SalmonIndexArgv(c, dir, ref, threads) ==
    <<"salmon", "index", "-k", ToString(c.kmer_length), "-i", dir, "-t", ref>>
    \o Opt(c.sparse, <<"--sparse">>)
    \o Opt(c.keep_duplicates, <<"--keepDuplicates">>)
    \o <<"--threads", ToString(threads)>>

IndexInfo(c) ==
    [command |-> "index", t2g_file |-> NoPath, output |-> c.output, threads |-> c.threads,
     fasta |-> NoPath, gtf |-> NoPath, ref_seq |-> NoPath]

IndexLocals(c) ==
    [threads |-> c.threads, splici_t2g |-> NoPath, pyroe_duration |-> NoneU,
     pyroe_cmd_string |-> "", ref_file |-> "", reference_sequence |-> NoPath,
     index_cmd_string |-> "", index_duration |-> NoneU]

\* the entry of build_ref_and_index without the check of the read length
IdxStartOutcomeAnyRlen(s) ==
    LET c == s.cur
        go == [s EXCEPT !.pc = "idx_mkdir", !.loc = IndexLocals(c)]
    IN  IF c.kind # "Index" THEN Bail(s, "invalid command")
        ELSE IF ~rp.present THEN Bail(s, "inspect_af_home")
        ELSE IF c.fasta # NoPath /\ c.ref_type = "SplicedUnspliced"
        THEN IF rp.pyroe = "absent" THEN Panic(s, "unwrap pyroe")
             ELSE IF rp.pyroe = "old" THEN Bail(s, "pyroe version")
             ELSE go
        ELSE go

\* entry of build_ref_and_index up to the creation of the output directory
IdxStartOutcome(s) ==
    LET c == s.cur
        go == [s EXCEPT !.pc = "idx_mkdir", !.loc = IndexLocals(c)]
    IN  IF c.kind # "Index" THEN Bail(s, "invalid command")
        ELSE IF ~rp.present THEN Bail(s, "inspect_af_home")
        ELSE IF c.fasta # NoPath
        THEN IF c.ref_type = "SplicedUnspliced"
             THEN IF rp.pyroe = "absent" THEN Panic(s, "unwrap pyroe")
                  ELSE IF rp.pyroe = "old" THEN Bail(s, "pyroe version")
                  ELSE go
             ELSE IF c.rlen = NoneU THEN Bail(s, "no rlen") ELSE go
        ELSE go

IdxStart ==
    /\ pc = "idx_start"
    /\ Apply(IdxStartOutcome(Log(S, "start", cur.kind, <<>>)))

IdxMkdir ==
    /\ pc = "idx_mkdir"
    /\ \E ok \in BOOLEAN :
        Apply(IF ok THEN [Mkdir(S, cur.output) EXCEPT !.pc = "idx_ref"]
              ELSE Bail(S, "mkdir"))

\* the reference construction branch up to the start of pyroe
IdxMakeRefOutcomes(s, ok, fl, spawned) ==
    LET c == s.cur
        outref == Join(c.output, "ref")
        info_file == Join(c.output, "index_info.json")
        t2g_file == Join(outref, T2gFileName(c, fl))
        info == [IndexInfo(c) EXCEPT !.t2g_file = t2g_file, !.fasta = c.fasta, !.gtf = c.gtf]
        argv == PyroeArgv(c, outref)
        s1 == Mkdir(s, outref)
        s2 == [WriteJson(s1, info_file, info) EXCEPT
                  !.loc.splici_t2g = t2g_file,
                  !.loc.ref_file = RefFileName(c, fl),
                  !.loc.pyroe_cmd_string = get_cmd_line_string(argv)]
    IN  IF ~ok.mkdir THEN Bail(s, "mkdir")
        ELSE IF fl = "panic" THEN Panic(s1, "subtract with overflow")
        ELSE IF ~ok.write THEN Bail(s1, "write index_info.json")
        ELSE IF rp.pyroe = "absent" THEN Panic(s2, "unwrap pyroe")
        ELSE IF ~check_files_exist(s2.files, PyroeInputs(c)) THEN Bail(s2, "missing input")
        ELSE IF ~spawned THEN Panic(s2, "could not execute pyroe")
        ELSE Spawn(s2, "pyroe", argv, "idx_pyroe_wait")

\* the direct reference branch
IdxDirectRefOutcome(s, ok) ==
    LET c == s.cur
        info_file == Join(c.output, "index_info.json")
        info == [IndexInfo(c) EXCEPT !.ref_seq = c.ref_seq]
    IN  IF c.ref_seq = NoPath THEN Panic(s, "unwrap ref_seq")
        ELSE IF ~ok.write THEN Bail(s, "write index_info.json")
        ELSE [WriteJson(s, info_file, info) EXCEPT
                !.loc.pyroe_cmd_string = "",
                !.loc.reference_sequence = c.ref_seq,
                !.pc = "idx_build"]

Oks == [mkdir : BOOLEAN, write : BOOLEAN]
AllOk == [mkdir |-> TRUE, write |-> TRUE]

IdxRef ==
    /\ pc = "idx_ref"
    /\ \E ok \in Oks, spawned \in BOOLEAN :
        IF IsBuildingRef(cur)
        THEN \E fl \in (IF cur.ref_type = "SplicedIntronic" THEN FlankLengths(cur.rlen) ELSE {""}) :
                Apply(IdxMakeRefOutcomes(S, ok, fl, spawned))
        ELSE Apply(IdxDirectRefOutcome(S, ok))

\* pyroe has exited
IdxPyroeExitOutcome(s, success, d, made) ==
    LET c == s.cur
        outref == Join(c.output, "ref")
        ref == Join(outref, s.loc.ref_file)
        t == [Log(s, "exit", "pyroe", <<IF success THEN "0" ELSE "1">>) EXCEPT
                !.proc = "none", !.loc.pyroe_duration = d]
    IN  IF ~success THEN Bail(t, "pyroe failed")
        ELSE [t EXCEPT
                !.loc.reference_sequence = ref,
                !.files = IF made THEN @ \cup {ref, s.loc.splici_t2g} ELSE @,
                !.pc = "idx_build"]
IdxPyroeExit ==
    /\ pc = "idx_pyroe_wait"
    /\ proc = "pyroe"
    /\ \/ \E d \in Durations : Apply(IdxPyroeExitOutcome(S, FALSE, d, FALSE))
       \/ \E d \in Durations, made \in BOOLEAN : Apply(IdxPyroeExitOutcome(S, TRUE, d, made))

\* from the check of the reference sequence to the start of the indexer
IdxBuildOutcome(s, ok, spawned) ==
    LET c == s.cur
        ref_seq == s.loc.reference_sequence
        output_index_dir == Join(c.output, "index")
        threads == ClampThreads(s.loc.threads, hostpar)
    IN  IF ref_seq = NoPath THEN Panic(s, "reference sequence should be set")
        ELSE IF ~check_files_exist(s.files, <<ref_seq>>) THEN Bail(s, "missing input")
        ELSE IF c.use_piscem
        THEN LET stem == Join(output_index_dir, "piscem_idx")
                 argv == PiscemIndexArgv(c, stem, ref_seq, threads)
                 s1 == [Mkdir(s, output_index_dir) EXCEPT
                           !.loc.threads = threads,
                           !.loc.index_cmd_string = get_cmd_line_string(argv)]
             IN  IF ~rp.piscem THEN Bail(s, "no piscem")
                 ELSE IF ~ok.mkdir THEN Bail(s, "mkdir")
                 ELSE IF ~spawned THEN Panic(s1, "failed to invoke piscem index command")
                 ELSE Spawn(s1, "index", argv, "idx_index_wait")
        ELSE LET argv == SalmonIndexArgv(c, output_index_dir, ref_seq, threads)
                 s1 == [s EXCEPT !.loc.threads = threads,
                                 !.loc.index_cmd_string = get_cmd_line_string(argv)]
             IN  IF ~rp.salmon THEN Bail(s, "no salmon")
                 ELSE IF ~spawned THEN Panic(s1, "failed to invoke salmon index command")
                 ELSE Spawn(s1, "index", argv, "idx_index_wait")

IdxBuild ==
    /\ pc = "idx_build"
    /\ \E ok \in Oks, spawned \in BOOLEAN : Apply(IdxBuildOutcome(S, ok, spawned))

\* what the indexer leaves behind when it succeeds
IndexerOutputs(c) ==
    LET dir == Join(c.output, "index")
        stem == Join(dir, "piscem_idx")
    IN  IF c.use_piscem THEN {stem \o ".ctab", stem \o ".refinfo", stem \o ".sshash"}
        ELSE {dir}

\* the t2g file name is recorded whether or not a t2g file was made
IndexJsonAlwaysT2g(c, l, t2g_out_path) ==
    [cmd |-> l.index_cmd_string,
     index_type |-> IF c.use_piscem THEN "piscem" ELSE "salmon",
     t2g_file |-> "t2g_3col.tsv",
     k |-> c.kmer_length,
     m |-> IF c.use_piscem THEN c.minimizer_length ELSE NoneU,
     overwrite |-> c.overwrite,
     threads |-> l.threads,
     ref |-> l.reference_sequence]

\* index metadata that record the thread count as it was requested
IndexJsonRequestedThreads(c, l, t2g_out_path) ==
    [cmd |-> l.index_cmd_string,
     index_type |-> IF c.use_piscem THEN "piscem" ELSE "salmon",
     t2g_file |-> t2g_out_path,
     k |-> c.kmer_length,
     m |-> IF c.use_piscem THEN c.minimizer_length ELSE NoneU,
     overwrite |-> c.overwrite,
     threads |-> c.threads,
     ref |-> l.reference_sequence]

\* index metadata that never names the t2g file
IndexJsonNoT2g(c, l, t2g_out_path) ==
    [cmd |-> l.index_cmd_string,
     index_type |-> IF c.use_piscem THEN "piscem" ELSE "salmon",
     t2g_file |-> NoPath,
     k |-> c.kmer_length,
     m |-> IF c.use_piscem THEN c.minimizer_length ELSE NoneU,
     overwrite |-> c.overwrite,
     threads |-> l.threads,
     ref |-> l.reference_sequence]

IndexJson(c, l, t2g_out_path) ==
    [cmd |-> l.index_cmd_string,
     index_type |-> IF c.use_piscem THEN "piscem" ELSE "salmon",
     t2g_file |-> t2g_out_path,
     k |-> c.kmer_length,
     m |-> IF c.use_piscem THEN c.minimizer_length ELSE NoneU,
     overwrite |-> c.overwrite,
     threads |-> l.threads,
     ref |-> l.reference_sequence]

\* the index metadata persisted whatever the indexer's exit status
IdxBuildExitOutcomeAnyStatus(s, success, d, made, ok) ==
    LET c == s.cur
        output_index_dir == Join(c.output, "index")
        t == [Log(s, "exit", "index", <<IF success THEN "0" ELSE "1">>) EXCEPT
                !.proc = "none", !.loc.index_duration = d,
                !.files = IF made THEN @ \cup IndexerOutputs(c) ELSE @]
        has_t2g == s.loc.splici_t2g # NoPath
        index_t2g_path == Join(output_index_dir, "t2g_3col.tsv")
        t2g_out_path == IF has_t2g THEN "t2g_3col.tsv" ELSE NoPath
        copied == IF has_t2g
                  THEN [Log(t, "copy", index_t2g_path, <<>>) EXCEPT !.files = @ \cup {index_t2g_path}]
                  ELSE t
        index_json_file == Join(output_index_dir, "simpleaf_index.json")
    IN  IF has_t2g /\ ~(s.loc.splici_t2g \in t.files /\ output_index_dir \in t.files)
        THEN Bail(t, "copy t2g")
        ELSE IF ~ok.write \/ output_index_dir \notin t.files
        THEN Bail(copied, "write simpleaf_index.json")
        ELSE [WriteJson(copied, index_json_file, IndexJson(c, t.loc, t2g_out_path)) EXCEPT
                !.pc = "idx_log"]

\* the indexer has exited: copy the t2g file and persist the index metadata
IdxBuildExitOutcome(s, success, d, made, ok) ==
    LET c == s.cur
        output_index_dir == Join(c.output, "index")
        t == [Log(s, "exit", "index", <<IF success THEN "0" ELSE "1">>) EXCEPT
                !.proc = "none", !.loc.index_duration = d,
                !.files = IF made THEN @ \cup IndexerOutputs(c) ELSE @]
        has_t2g == s.loc.splici_t2g # NoPath
        index_t2g_path == Join(output_index_dir, "t2g_3col.tsv")
        t2g_out_path == IF has_t2g THEN "t2g_3col.tsv" ELSE NoPath
        copied == IF has_t2g
                  THEN [Log(t, "copy", index_t2g_path, <<>>) EXCEPT !.files = @ \cup {index_t2g_path}]
                  ELSE t
        index_json_file == Join(output_index_dir, "simpleaf_index.json")
    IN  IF ~success THEN Bail(t, "index failed")
        ELSE IF has_t2g /\ ~(s.loc.splici_t2g \in t.files /\ output_index_dir \in t.files)
        THEN Bail(t, "copy t2g")
        ELSE IF ~ok.write \/ output_index_dir \notin t.files
        THEN Bail(copied, "write simpleaf_index.json")
        ELSE [WriteJson(copied, index_json_file, IndexJson(c, t.loc, t2g_out_path)) EXCEPT
                !.pc = "idx_log"]

IdxBuildExit ==
    /\ pc = "idx_index_wait"
    /\ proc = "index"
    /\ \/ \E d \in Durations : Apply(IdxBuildExitOutcome(S, FALSE, d, FALSE, AllOk))
       \/ \E d \in Durations, made \in BOOLEAN, ok \in Oks :
            Apply(IdxBuildExitOutcome(S, TRUE, d, made, ok))

\* a provenance record with a pyroe entry in every case
IndexLogAlwaysPyroe(l) ==
    [time_info |-> [pyroe_time |-> l.pyroe_duration, index_time |-> l.index_duration],
     cmd_info |-> [pyroe_cmd |-> l.pyroe_cmd_string, index_cmd |-> l.index_cmd_string]]

IndexLog(l) ==
    IF l.pyroe_duration # NoneU
    THEN [time_info |-> [pyroe_time |-> l.pyroe_duration, index_time |-> l.index_duration],
          cmd_info |-> [pyroe_cmd |-> l.pyroe_cmd_string, index_cmd |-> l.index_cmd_string]]
    ELSE [time_info |-> [index_time |-> l.index_duration],
          cmd_info |-> [index_cmd |-> l.index_cmd_string]]

\* the provenance record of Index
IdxLog ==
    /\ pc = "idx_log"
    /\ \E ok \in Oks :
        Apply(IF ~ok.write THEN Bail(S, "write simpleaf_index_log.json")
              ELSE Return(WriteJson(S, Join(cur.output, "simpleaf_index_log.json"), IndexLog(loc)), Ok))
----------------------------------------------------------------------------
(* map_and_quant: configuration resolution *)

Home == "afhome"

Salmon(p) == [t |-> "Salmon", p |-> p]
Piscem(p) == [t |-> "Piscem", p |-> p]
NoIndex == [t |-> "NoIndex", p |-> NoPath]
UnknownIndex == [t |-> "Unknown", p |-> NoPath]

TenxV2 == [t |-> "TenxV2", s |-> "10xv2"]
TenxV3 == [t |-> "TenxV3", s |-> "10xv3"]
Other(g) == [t |-> "Other", s |-> g]

\* Chemistry::as_str
ChemStr(chem) == chem.s

\* the recorded map taken even when one was given on the command line
ReadIndexJsonRecordedFirst(fs, js, c) ==
    LET p == Join(c.index, "simpleaf_index.json")
        none == [err |-> FALSE, had |-> FALSE, index_type_str |-> "", t2g_map |-> c.t2g_map]
    IN  IF c.index = NoPath \/ p \notin fs THEN none
        ELSE IF p \notin DOMAIN js THEN [none EXCEPT !.err = TRUE]
        ELSE [err |-> FALSE, had |-> TRUE, index_type_str |-> js[p].index_type,
              t2g_map |-> IF js[p].t2g_file # NoPath
                          THEN Join(c.index, js[p].t2g_file)
                          ELSE c.t2g_map]

\* what map_and_quant reads from <index>/simpleaf_index.json
ReadIndexJson(fs, js, c) ==
    LET p == Join(c.index, "simpleaf_index.json")
        none == [err |-> FALSE, had |-> FALSE, index_type_str |-> "", t2g_map |-> c.t2g_map]
    IN  IF c.index = NoPath \/ p \notin fs THEN none
        ELSE IF p \notin DOMAIN js THEN [none EXCEPT !.err = TRUE]
        ELSE [err |-> FALSE, had |-> TRUE, index_type_str |-> js[p].index_type,
              t2g_map |-> IF c.t2g_map = NoPath /\ js[p].t2g_file # NoPath
                          THEN Join(c.index, js[p].t2g_file)
                          ELSE c.t2g_map]

\* the recorded type believed over the flag
ResolveIndexTypeMetadataFirst(index, use_piscem, had_simpleaf_index_json, index_type_str) ==
    IF index = NoPath THEN NoIndex
    ELSE IF had_simpleaf_index_json /\ index_type_str = "salmon" THEN Salmon(index)
    ELSE IF had_simpleaf_index_json /\ index_type_str = "piscem"
    THEN Piscem(Join(index, "piscem_idx"))
    ELSE IF use_piscem THEN Piscem(index)
    ELSE IF ~had_simpleaf_index_json THEN Salmon(index)
    ELSE UnknownIndex

\* the piscem_idx base forgotten
ResolveIndexTypeNoBase(index, use_piscem, had_simpleaf_index_json, index_type_str) ==
    IF index = NoPath THEN NoIndex
    ELSE IF use_piscem THEN Piscem(index)
    ELSE IF ~had_simpleaf_index_json THEN Salmon(index)
    ELSE IF index_type_str = "salmon" THEN Salmon(index)
    ELSE IF index_type_str = "piscem" THEN Piscem(index)
    ELSE UnknownIndex

\* "figure out what type of index we expect"
ResolveIndexType(index, use_piscem, had_simpleaf_index_json, index_type_str) ==
    IF index = NoPath THEN NoIndex
    ELSE IF use_piscem THEN Piscem(index)
    ELSE IF ~had_simpleaf_index_json THEN Salmon(index)
    ELSE IF index_type_str = "salmon" THEN Salmon(index)
    ELSE IF index_type_str = "piscem" THEN Piscem(Join(index, "piscem_idx"))
    ELSE UnknownIndex

\* "make sure we have an program matching the appropriate index type"
HaveMapper(reg, index_type) ==
    CASE index_type.t = "Piscem" -> reg.piscem
      [] index_type.t = "Salmon" -> reg.salmon
      [] OTHER -> TRUE

CustomChemPath == Join(Home, "custom_chemistries.json")

\* the custom chemistry file never consulted for the geometry
ResolveChemistryNoLookup(fs, js, name) ==
    IF name = "10xv2" THEN TenxV2
    ELSE IF name = "10xv3" THEN TenxV3
    ELSE IF CustomChemPath \in fs /\ CustomChemPath \notin DOMAIN js
    THEN [t |-> "Error", s |-> name]
    ELSE Other(name)

\* an unreadable custom chemistry file passed over
ResolveChemistryLenient(fs, js, name) ==
    IF name = "10xv2" THEN TenxV2
    ELSE IF name = "10xv3" THEN TenxV3
    ELSE IF CustomChemPath \in fs /\ CustomChemPath \in DOMAIN js
    THEN IF name \in DOMAIN js[CustomChemPath] THEN Other(js[CustomChemPath][name])
         ELSE Other(name)
    ELSE Other(name)

\* the chemistry named on the command line; "error" when the custom file is unreadable
ResolveChemistry(fs, js, name) ==
    IF name = "10xv2" THEN TenxV2
    ELSE IF name = "10xv3" THEN TenxV3
    ELSE IF CustomChemPath \in fs
    THEN IF CustomChemPath \notin DOMAIN js THEN [t |-> "Error", s |-> name]
         ELSE IF name \in DOMAIN js[CustomChemPath] THEN Other(js[CustomChemPath][name])
         ELSE Other(name)
    ELSE Other(name)

\* the default taken to be forward for every chemistry
ResolveOrientationForward(expected_ori, chem) ==
    IF expected_ori # "" THEN expected_ori ELSE "fw"

ResolveOrientation(expected_ori, chem) ==
    IF expected_ori # "" THEN expected_ori
    ELSE IF chem.t \in {"TenxV2", "TenxV3"} THEN "fw"
    ELSE "both"

NoFilter == [t |-> "None", path |-> NoPath, n |-> 0]
FilterError(at) == [t |-> "Error", path |-> at, n |-> 0]
UnfilteredExternalList(path, n) == [t |-> "UnfilteredExternalList", path |-> path, n |-> n]
ExplicitList(path) == [t |-> "ExplicitList", path |-> path, n |-> 0]
ForceCells(n) == [t |-> "ForceCells", path |-> NoPath, n |-> n]
ExpectCells(n) == [t |-> "ExpectCells", path |-> NoPath, n |-> n]
KneeFinding == [t |-> "KneeFinding", path |-> NoPath, n |-> 0]

\* af_utils::get_permit_if_absent: the canonical permit list of a chemistry,
\* fetched into the home directory when it is not there yet
PermitListFile(chem) ==
    CASE chem.t = "TenxV2" -> Join(Join(Home, "plist"), "10x_v2_permit.txt")
      [] chem.t = "TenxV3" -> Join(Join(Home, "plist"), "10x_v3_permit.txt")
      [] OTHER -> NoPath

\* the canonical list asked for whatever the chemistry
ResolveFilterNoChemistryCheck(fs, c, chem, fetched) ==
    LET unf ==
            IF c.unfiltered_pl.path # NoPath
            THEN IF c.unfiltered_pl.path \in fs
                 THEN UnfilteredExternalList(c.unfiltered_pl.path, c.min_reads)
                 ELSE FilterError("not a regular file")
            ELSE IF ~fetched THEN FilterError("get_permit_if_absent")
            ELSE UnfilteredExternalList(PermitListFile(chem), c.min_reads)
        f1 == IF c.explicit_pl # NoPath THEN ExplicitList(c.explicit_pl) ELSE NoFilter
        f2 == IF c.forced_cells # NoneU THEN ForceCells(c.forced_cells) ELSE f1
        f3 == IF c.expect_cells # NoneU THEN ExpectCells(c.expect_cells) ELSE f2
        f4 == IF c.unfiltered_pl.given THEN unf ELSE f3
    IN  IF f4.t = "Error" THEN f4
        ELSE IF c.knee THEN KneeFinding
        ELSE IF f4.t = "None" THEN FilterError("no filter")
        ELSE f4

\* an option found set is not overwritten by a later one
ResolveFilterFirstWins(fs, c, chem, fetched) ==
    LET unf ==
            IF c.unfiltered_pl.path # NoPath
            THEN IF c.unfiltered_pl.path \in fs
                 THEN UnfilteredExternalList(c.unfiltered_pl.path, c.min_reads)
                 ELSE FilterError("not a regular file")
            ELSE IF PermitListFile(chem) = NoPath THEN FilterError("unregistered chemistry")
            ELSE IF ~fetched THEN FilterError("get_permit_if_absent")
            ELSE UnfilteredExternalList(PermitListFile(chem), c.min_reads)
        f1 == IF c.knee THEN KneeFinding ELSE NoFilter
        f2 == IF c.expect_cells # NoneU THEN ExpectCells(c.expect_cells) ELSE f1
        f3 == IF c.forced_cells # NoneU THEN ForceCells(c.forced_cells) ELSE f2
        f4 == IF c.explicit_pl # NoPath THEN ExplicitList(c.explicit_pl) ELSE f3
        f5 == IF c.unfiltered_pl.given THEN unf ELSE f4
    IN  IF f5.t = "None" THEN FilterError("no filter") ELSE f5

\* the path given with the unfiltered flag taken without looking at it
ResolveFilterAnyPath(fs, c, chem, fetched) ==
    LET unf ==
            IF c.unfiltered_pl.path # NoPath
            THEN UnfilteredExternalList(c.unfiltered_pl.path, c.min_reads)
            ELSE IF PermitListFile(chem) = NoPath THEN FilterError("unregistered chemistry")
            ELSE IF ~fetched THEN FilterError("get_permit_if_absent")
            ELSE UnfilteredExternalList(PermitListFile(chem), c.min_reads)
        f1 == IF c.explicit_pl # NoPath THEN ExplicitList(c.explicit_pl) ELSE NoFilter
        f2 == IF c.forced_cells # NoneU THEN ForceCells(c.forced_cells) ELSE f1
        f3 == IF c.expect_cells # NoneU THEN ExpectCells(c.expect_cells) ELSE f2
        f4 == IF c.unfiltered_pl.given THEN unf ELSE f3
    IN  IF f4.t = "Error" THEN f4
        ELSE IF c.knee THEN KneeFinding
        ELSE IF f4.t = "None" THEN FilterError("no filter")
        ELSE f4

\* the filter method; `fetched` tells whether the canonical list could be obtained
ResolveFilter(fs, c, chem, fetched) ==
    LET unf ==
            IF c.unfiltered_pl.path # NoPath
            THEN IF c.unfiltered_pl.path \in fs
                 THEN UnfilteredExternalList(c.unfiltered_pl.path, c.min_reads)
                 ELSE FilterError("not a regular file")
            ELSE IF PermitListFile(chem) = NoPath THEN FilterError("unregistered chemistry")
            ELSE IF ~fetched THEN FilterError("get_permit_if_absent")
            ELSE UnfilteredExternalList(PermitListFile(chem), c.min_reads)
        f1 == IF c.explicit_pl # NoPath THEN ExplicitList(c.explicit_pl) ELSE NoFilter
        f2 == IF c.forced_cells # NoneU THEN ForceCells(c.forced_cells) ELSE f1
        f3 == IF c.expect_cells # NoneU THEN ExpectCells(c.expect_cells) ELSE f2
        f4 == IF c.unfiltered_pl.given THEN unf ELSE f3
    IN  IF f4.t = "Error" THEN f4
        ELSE IF c.knee THEN KneeFinding
        ELSE IF f4.t = "None" THEN FilterError("no filter")
        ELSE f4

\* af_utils::add_to_args
FilterArgs(fm) ==
    CASE fm.t = "UnfilteredExternalList" -> <<"-u", fm.path, "--min-reads", ToString(fm.n)>>
      [] fm.t = "ExplicitList" -> <<"-b", fm.path>>
      [] fm.t = "ForceCells" -> <<"--force-cells", ToString(fm.n)>>
      [] fm.t = "ExpectCells" -> <<"--expect-cells", ToString(fm.n)>>
      [] OTHER -> <<"--knee-distance">>

QuantLocals(c) ==
    [threads |-> c.threads, t2g_map_file |-> NoPath, had_simpleaf_index_json |-> FALSE,
     index_type_str |-> "", index_type |-> NoIndex, chem |-> Other(""), ori |-> "",
     filter_meth |-> NoFilter, sc_mapper |-> "", map_cmd_string |-> "", map_output |-> NoPath,
     map_duration |-> NoneU, gpl_cmd |-> "", gpl_duration |-> NoneU,
     collate_cmd |-> "", collate_duration |-> NoneU,
     quant_cmd |-> "", quant_duration |-> NoneU]

\* entry of map_and_quant: registry, index metadata, transcript-to-gene map
QStartOutcome(s) ==
    LET c == s.cur
        m == ReadIndexJson(s.files, s.json, c)
    IN  IF c.kind # "Quant" THEN Bail(s, "unknown command")
        ELSE IF ~rp.present THEN Bail(s, "inspect_af_home")
        ELSE IF m.err THEN Bail(s, "read simpleaf_index.json")
        ELSE IF m.t2g_map = NoPath THEN Bail(s, "no t2g")
        ELSE IF ~check_files_exist(s.files, <<m.t2g_map>>) THEN Bail(s, "missing input")
        ELSE [s EXCEPT !.pc = "q_index_type",
                       !.loc = [QuantLocals(c) EXCEPT
                                   !.t2g_map_file = m.t2g_map,
                                   !.had_simpleaf_index_json = m.had,
                                   !.index_type_str = m.index_type_str]]

QStart ==
    /\ pc = "q_start"
    /\ Apply(QStartOutcome(Log(S, "start", cur.kind, <<>>)))

QIndexTypeOutcome(s) ==
    LET c == s.cur
        it == ResolveIndexType(c.index, c.use_piscem, s.loc.had_simpleaf_index_json,
                               s.loc.index_type_str)
    IN  IF it.t = "Unknown" THEN Bail(s, "unknown index type")
        ELSE IF ~HaveMapper(rp, it) THEN Bail([s EXCEPT !.loc.index_type = it], "no mapper")
        ELSE [s EXCEPT !.pc = "q_chem", !.loc.index_type = it]

QIndexType ==
    /\ pc = "q_index_type"
    /\ Apply(QIndexTypeOutcome(S))

QChemOutcome(s) ==
    LET c == s.cur
        chem == ResolveChemistry(s.files, s.json, c.chemistry)
    IN  IF chem.t = "Error" THEN Bail(s, "read custom_chemistries.json")
        ELSE [s EXCEPT !.pc = "q_filter", !.loc.chem = chem,
                       !.loc.ori = ResolveOrientation(c.expected_ori, chem)]

QChem ==
    /\ pc = "q_chem"
    /\ Apply(QChemOutcome(S))

QFilterOutcome(s, fetched) ==
    LET c == s.cur
        fm == ResolveFilter(s.files, c, s.loc.chem, fetched)
        got == IF fm.t = "UnfilteredExternalList" /\ c.unfiltered_pl.path = NoPath
               THEN {fm.path} ELSE {}
    IN  IF fm.t = "Error" THEN Bail(s, fm.path)
        ELSE [s EXCEPT !.pc = "q_map", !.loc.filter_meth = fm,
                       !.files = @ \cup got,
                       !.loc.threads = ClampThreads(c.threads, hostpar)]

QFilter ==
    /\ pc = "q_filter"
    /\ \E fetched \in BOOLEAN : Apply(QFilterOutcome(S, fetched))
----------------------------------------------------------------------------
(* map_and_quant: the stages *)

RECURSIVE LastIndexOf(_, _, _)
LastIndexOf(str, ch, i) ==
    IF i = 0 THEN 0
    ELSE IF SubSeq(str, i, i) = ch THEN i
    ELSE LastIndexOf(str, ch, i - 1)

\* Path::with_extension
WithExtension(p, ext) ==
    LET slash == LastIndexOf(p, "/", Len(p))
        dot == LastIndexOf(p, ".", Len(p))
        stem_end == IF dot > slash + 1 THEN dot - 1 ELSE Len(p)
    IN  SubSeq(p, 1, stem_end) \o "." \o ext

\* af_utils::add_chemistry_to_args_piscem / add_chemistry_to_args_salmon
ChemistryArgs(mapper, chem) ==
    IF mapper = "piscem"
    THEN <<"--geometry", IF chem.t = "TenxV2" THEN "chromium_v2"
                         ELSE IF chem.t = "TenxV3" THEN "chromium_v3" ELSE ChemStr(chem)>>
    ELSE IF chem.t = "TenxV2" THEN <<"--chromium">>
    ELSE IF chem.t = "TenxV3" THEN <<"--chromiumV3">>
    ELSE <<"--custom-geo", ChemStr(chem)>>

PiscemMapArgv(c, l, index_base, map_output) ==
    <<"piscem", "map-sc", "--index", index_base, "--threads", ToString(l.threads),
      "-o", map_output, "-1", JoinWith(c.reads1, ","), "-2", JoinWith(c.reads2, ",")>>
    \o ChemistryArgs("piscem", l.chem)

SalmonMapArgv(c, l, index_base, map_output) ==
    <<"salmon", "alevin", "--index", index_base, "-l", "A", "-1">> \o c.reads1
    \o <<"-2">> \o c.reads2
    \o <<"--threads", ToString(l.threads), "-o", map_output>>
    \o (IF c.use_selective_alignment THEN <<"--rad">> ELSE <<"--sketch">>)
    \o ChemistryArgs("salmon", l.chem)

PiscemMapInputs(c, index_base) ==
    <<WithExtension(index_base, "ctab"), WithExtension(index_base, "refinfo"),
      WithExtension(index_base, "sshash")>> \o c.reads1 \o c.reads2

SalmonMapInputs(c) == <<c.index>> \o c.reads1 \o c.reads2

\* "if we are mapping against an index": the mapping stage, or its skipping
QMapOutcome(s, chem_ok, spawned) ==
    LET c == s.cur
        l == s.loc
        map_output == Join(c.output, "af_map")
        piscem == l.index_type.t = "Piscem"
        argv == IF piscem THEN PiscemMapArgv(c, l, l.index_type.p, map_output)
                ELSE SalmonMapArgv(c, l, l.index_type.p, map_output)
        inputs == IF piscem THEN PiscemMapInputs(c, l.index_type.p) ELSE SalmonMapInputs(c)
        s1 == [s EXCEPT !.loc.map_output = map_output,
                        !.loc.map_cmd_string = get_cmd_line_string(argv),
                        !.loc.sc_mapper = IF piscem THEN "piscem" ELSE "salmon"]
    IN  IF c.index # NoPath
        THEN IF c.reads1 = <<>> \/ c.reads2 = <<>> THEN Panic(s, "reads must be provided")
             ELSE IF Len(c.reads1) # Len(c.reads2) THEN Panic(s, "assert_eq reads")
             ELSE IF l.index_type.t = "NoIndex" THEN Bail(s, "no index")
             ELSE IF l.chem.t = "Other" /\ ~chem_ok THEN Bail(s, "add_chemistry_to_args")
             ELSE IF ~check_files_exist(s.files, inputs) THEN Bail(s1, "missing input")
             ELSE IF ~spawned THEN Panic(s1, "failed to execute mapper")
             ELSE Spawn(s1, "map", argv, "q_map_wait")
        ELSE IF c.map_dir = NoPath THEN Panic(s, "map-dir must be provided")
        ELSE [s EXCEPT !.loc.map_output = c.map_dir, !.loc.map_duration = 0,
                       !.loc.map_cmd_string = "", !.loc.sc_mapper = "", !.pc = "q_gpl"]

QMap ==
    /\ pc = "q_map"
    /\ \E chem_ok \in BOOLEAN, spawned \in BOOLEAN : Apply(QMapOutcome(S, chem_ok, spawned))

\* a stage exit whose status is not looked at
StageExitUnchecked(s, stage, success, d, outputs, nextpc) ==
    [Log(s, "exit", stage, <<IF success THEN "0" ELSE "1">>) EXCEPT
        !.proc = "none",
        !.loc = [@ EXCEPT ![stage \o "_duration"] = d],
        !.files = @ \cup outputs, !.pc = nextpc]

\* a stage that has failed for the first time is started again
StageExitRetry(s, stage, success, d, outputs, nextpc) ==
    LET t == [Log(s, "exit", stage, <<IF success THEN "0" ELSE "1">>) EXCEPT
                !.proc = "none",
                !.loc = [@ EXCEPT ![stage \o "_duration"] = d]]
        first == \A i \in 1..Len(s.trace) : ~(s.trace[i].e = "exit" /\ s.trace[i].s = stage)
    IN  IF ~success THEN (IF first THEN [t EXCEPT !.pc = "q_" \o stage]
                          ELSE Bail(t, stage \o " failed"))
        ELSE [t EXCEPT !.files = @ \cup outputs, !.pc = nextpc]

\* a stage's process has exited: record its duration, fail on a non-zero status
StageExit(s, stage, success, d, outputs, nextpc) ==
    LET t == [Log(s, "exit", stage, <<IF success THEN "0" ELSE "1">>) EXCEPT
                !.proc = "none",
                !.loc = [@ EXCEPT ![stage \o "_duration"] = d]]
    IN  IF ~success THEN Bail(t, stage \o " failed")
        ELSE [t EXCEPT !.files = @ \cup outputs, !.pc = nextpc]

QMapExit ==
    /\ pc = "q_map_wait"
    /\ proc = "map"
    /\ \/ \E d \in Durations : Apply(StageExit(S, "map", FALSE, d, {}, "q_gpl"))
       \/ \E d \in Durations, made \in BOOLEAN :
            Apply(StageExit(S, "map", TRUE, d,
                            IF made THEN {cur.output, loc.map_output} ELSE {}, "q_gpl"))

GplOutput(c) == Join(c.output, "af_quant")

\* the permit-list stage always reading the run's own mapping directory
GplArgvOwnMapDir(c, l) ==
    <<"alevin-fry", "generate-permit-list", "-i", Join(c.output, "af_map"), "-d", l.ori>>
    \o FilterArgs(l.filter_meth) \o <<"-o", GplOutput(c)>>

GplArgv(c, l) ==
    <<"alevin-fry", "generate-permit-list", "-i", l.map_output, "-d", l.ori>>
    \o FilterArgs(l.filter_meth) \o <<"-o", GplOutput(c)>>

CollateArgv(c, l) ==
    <<"alevin-fry", "collate", "-i", GplOutput(c), "-r", l.map_output, "-t", ToString(l.threads)>>

QuantArgv(c, l) ==
    <<"alevin-fry", "quant", "-i", GplOutput(c), "-o", GplOutput(c), "-t", ToString(l.threads),
      "-m", l.t2g_map_file, "-r", c.resolution>>

\* a stage started without a look at its inputs
StageStartUnchecked(s, stage, argv, inputs, spawned, nextpc) ==
    LET s1 == [s EXCEPT !.loc = [@ EXCEPT ![stage \o "_cmd"] = get_cmd_line_string(argv)]]
    IN  IF ~spawned THEN Panic(s1, "could not execute " \o stage)
        ELSE Spawn(s1, stage, argv, nextpc)

\* build a stage's command, check its inputs and start it
StageStart(s, stage, argv, inputs, spawned, nextpc) ==
    LET s1 == [s EXCEPT !.loc = [@ EXCEPT ![stage \o "_cmd"] = get_cmd_line_string(argv)]]
    IN  IF ~check_files_exist(s.files, inputs) THEN Bail(s1, "missing input")
        ELSE IF ~spawned THEN Panic(s1, "could not execute " \o stage)
        ELSE Spawn(s1, stage, argv, nextpc)

QGplOutcome(s, spawned) ==
    IF ~rp.alevin_fry THEN Panic(s, "unwrap alevin_fry")
    ELSE StageStart(s, "gpl", GplArgv(s.cur, s.loc), <<s.loc.map_output>>, spawned, "q_gpl_wait")

QGpl ==
    /\ pc = "q_gpl"
    /\ \E spawned \in BOOLEAN : Apply(QGplOutcome(S, spawned))

\* generate-permit-list followed by quant at once
QGplExitToQuant ==
    /\ pc = "q_gpl_wait"
    /\ proc = "gpl"
    /\ \/ \E d \in Durations : Apply(StageExit(S, "gpl", FALSE, d, {}, "q_quant"))
       \/ \E d \in Durations, made \in BOOLEAN :
            Apply(StageExit(S, "gpl", TRUE, d,
                            IF made THEN {cur.output, GplOutput(cur)} ELSE {}, "q_quant"))

QGplExit ==
    /\ pc = "q_gpl_wait"
    /\ proc = "gpl"
    /\ \/ \E d \in Durations : Apply(StageExit(S, "gpl", FALSE, d, {}, "q_collate"))
       \/ \E d \in Durations, made \in BOOLEAN :
            Apply(StageExit(S, "gpl", TRUE, d,
                            IF made THEN {cur.output, GplOutput(cur)} ELSE {}, "q_collate"))

QCollate ==
    /\ pc = "q_collate"
    /\ \E spawned \in BOOLEAN :
        Apply(StageStart(S, "collate", CollateArgv(cur, loc),
                         <<GplOutput(cur), loc.map_output>>, spawned, "q_collate_wait"))

QCollateExit ==
    /\ pc = "q_collate_wait"
    /\ proc = "collate"
    /\ \E success \in BOOLEAN, d \in Durations :
        Apply(StageExit(S, "collate", success, d, {}, "q_quant"))

QQuant ==
    /\ pc = "q_quant"
    /\ \E spawned \in BOOLEAN :
        Apply(StageStart(S, "quant", QuantArgv(cur, loc),
                         <<GplOutput(cur), loc.t2g_map_file>>, spawned, "q_quant_wait"))

QQuantExit ==
    /\ pc = "q_quant_wait"
    /\ proc = "quant"
    /\ \E success \in BOOLEAN, d \in Durations :
        Apply(StageExit(S, "quant", success, d, {}, "q_log"))

\* the collate entry of cmd_info, as map_and_quant fills it in
LoggedCollateCmd(l) == l.gpl_cmd

QuantLog(l) ==
    [time_info |-> [map_time |-> l.map_duration, gpl_time |-> l.gpl_duration,
                    collate_time |-> l.collate_duration, quant_time |-> l.quant_duration],
     cmd_info |-> [map_cmd |-> l.map_cmd_string, gpl_cmd |-> l.gpl_cmd,
                   collate_cmd |-> LoggedCollateCmd(l), quant_cmd |-> l.quant_cmd],
     map_info |-> [mapper |-> l.sc_mapper, map_cmd |-> l.map_cmd_string,
                   map_outdir |-> l.map_output]]

\* the provenance record of Quant
QLog ==
    /\ pc = "q_log"
    /\ \E ok \in Oks :
        Apply(IF ~ok.write \/ cur.output \notin files THEN Bail(S, "write simpleaf_quant_log.json")
              ELSE Return(WriteJson(S, Join(cur.output, "simpleaf_quant_log.json"), QuantLog(loc)), Ok))
----------------------------------------------------------------------------
(* The command line: tokenizing a stored command string and parsing it *)

Whitespace == {" ", "\t", "\n"}

RECURSIVE SplitOn(_, _, _, _, _)
\* the non-empty pieces of str between characters of seps
SplitOn(str, seps, i, tok, acc) ==
    IF i > Len(str) THEN (IF tok = "" THEN acc ELSE Append(acc, tok))
    ELSE LET ch == SubSeq(str, i, i) IN
         IF ch \in seps
         THEN SplitOn(str, seps, i + 1, "", IF tok = "" THEN acc ELSE Append(acc, tok))
         ELSE SplitOn(str, seps, i + 1, tok \o ch, acc)

\* str::split_whitespace
split_whitespace(str) == SplitOn(str, Whitespace, 1, "", <<>>)

RECURSIVE TrimStart(_, _)
TrimStart(str, ch) ==
    IF Len(str) > 0 /\ SubSeq(str, 1, 1) = ch THEN TrimStart(SubSeq(str, 2, Len(str)), ch) ELSE str

RECURSIVE TrimEnd(_, _)
TrimEnd(str, ch) ==
    IF Len(str) > 0 /\ SubSeq(str, Len(str), Len(str)) = ch
    THEN TrimEnd(SubSeq(str, 1, Len(str) - 1), ch) ELSE str

\* str::trim_matches
trim_matches(str, ch) == TrimEnd(TrimStart(str, ch), ch)

\* serde_json::Value::to_string of a JSON string: the text between double quotes
JsonToString(str) == "\"" \o str \o "\""

\* the argument vector run_workflow builds from a record's "cmd"
CmdVec(cmd_string) == split_whitespace(trim_matches(JsonToString(cmd_string), "\""))

Digits == "0123456789"

RECURSIVE ParseDigits(_, _, _)
\* str::parse::<u32>: NoneU when str is not a decimal number
ParseDigits(str, i, acc) ==
    IF i > Len(str) THEN acc
    ELSE LET d == LastIndexOf(Digits, SubSeq(str, i, i), Len(Digits)) IN
         IF d = 0 THEN NoneU ELSE ParseDigits(str, i + 1, acc * 10 + (d - 1))

\* numbers of up to U32Digits digits; u32::MAX has one more
ParseU32(str) ==
    IF str = "" \/ Len(str) > U32Digits THEN NoneU ELSE ParseDigits(str, 1, 0)

ref_type_parser(str) ==
    IF str \in {"spliced+intronic", "splici"} THEN "SplicedIntronic"
    ELSE IF str \in {"spliced+unspliced", "spliceu"} THEN "SplicedUnspliced"
    ELSE "error"

\* Commands::Index with clap's defaults
IndexDefaults ==
    [kind |-> "Index", ref_type |-> "SplicedIntronic", fasta |-> NoPath, gtf |-> NoPath,
     rlen |-> NoneU, dedup |-> FALSE, ref_seq |-> NoPath, spliced |-> NoPath,
     unspliced |-> NoPath, use_piscem |-> FALSE, minimizer_length |-> DefaultMinimizer,
     output |-> NoPath, overwrite |-> FALSE, threads |-> DefaultThreads,
     kmer_length |-> DefaultKmer, keep_duplicates |-> FALSE, sparse |-> FALSE]

NoUnfiltered == [given |-> FALSE, path |-> NoPath]

\* Commands::Quant with clap's defaults
QuantDefaults ==
    [kind |-> "Quant", chemistry |-> "", output |-> NoPath, threads |-> DefaultThreads,
     index |-> NoPath, reads1 |-> <<>>, reads2 |-> <<>>, use_selective_alignment |-> FALSE,
     use_piscem |-> FALSE, map_dir |-> NoPath, knee |-> FALSE, unfiltered_pl |-> NoUnfiltered,
     forced_cells |-> NoneU, explicit_pl |-> NoPath, expect_cells |-> NoneU,
     expected_ori |-> "", min_reads |-> DefaultMinReads, t2g_map |-> NoPath, resolution |-> ""]

ParseError == [kind |-> "ParseError"]

Flag(field, ty) == [field |-> field, ty |-> ty]

\* the #[arg] attributes of Commands::Index
IndexFlags ==
    [f \in {"--ref-type", "-f", "--fasta", "-g", "--gtf", "-r", "--rlen", "--dedup", "--ref-seq",
            "--refseq", "--spliced", "--unspliced", "--use-piscem", "-m", "--minimizer-length",
            "-o", "--output", "--overwrite", "-t", "--threads", "-k", "--kmer-length",
            "--keep-duplicates", "-p", "--sparse"} |->
        CASE f = "--ref-type" -> Flag("ref_type", "reftype")
          [] f \in {"-f", "--fasta"} -> Flag("fasta", "path")
          [] f \in {"-g", "--gtf"} -> Flag("gtf", "path")
          [] f \in {"-r", "--rlen"} -> Flag("rlen", "num")
          [] f = "--dedup" -> Flag("dedup", "bool")
          [] f \in {"--ref-seq", "--refseq"} -> Flag("ref_seq", "path")
          [] f = "--spliced" -> Flag("spliced", "path")
          [] f = "--unspliced" -> Flag("unspliced", "path")
          [] f = "--use-piscem" -> Flag("use_piscem", "bool")
          [] f \in {"-m", "--minimizer-length"} -> Flag("minimizer_length", "num")
          [] f \in {"-o", "--output"} -> Flag("output", "path")
          [] f = "--overwrite" -> Flag("overwrite", "bool")
          [] f \in {"-t", "--threads"} -> Flag("threads", "num")
          [] f \in {"-k", "--kmer-length"} -> Flag("kmer_length", "num")
          [] f = "--keep-duplicates" -> Flag("keep_duplicates", "bool")
          [] OTHER -> Flag("sparse", "bool")]

\* the #[arg] attributes of Commands::Quant
QuantFlags ==
    [f \in {"-c", "--chemistry", "-o", "--output", "-t", "--threads", "-i", "--index", "-1",
            "--reads1", "-2", "--reads2", "-s", "--use-selective-alignment", "--use-piscem",
            "--map-dir", "-k", "--knee", "-u", "--unfiltered-pl", "-f", "--forced-cells", "-x",
            "--explicit-pl", "-e", "--expect-cells", "-d", "--expected-ori", "--min-reads",
            "-m", "--t2g-map", "-r", "--resolution"} |->
        CASE f \in {"-c", "--chemistry"} -> Flag("chemistry", "path")
          [] f \in {"-o", "--output"} -> Flag("output", "path")
          [] f \in {"-t", "--threads"} -> Flag("threads", "num")
          [] f \in {"-i", "--index"} -> Flag("index", "path")
          [] f \in {"-1", "--reads1"} -> Flag("reads1", "list")
          [] f \in {"-2", "--reads2"} -> Flag("reads2", "list")
          [] f \in {"-s", "--use-selective-alignment"} -> Flag("use_selective_alignment", "bool")
          [] f = "--use-piscem" -> Flag("use_piscem", "bool")
          [] f = "--map-dir" -> Flag("map_dir", "path")
          [] f \in {"-k", "--knee"} -> Flag("knee", "bool")
          [] f \in {"-u", "--unfiltered-pl"} -> Flag("unfiltered_pl", "optpath")
          [] f \in {"-f", "--forced-cells"} -> Flag("forced_cells", "num")
          [] f \in {"-x", "--explicit-pl"} -> Flag("explicit_pl", "path")
          [] f \in {"-e", "--expect-cells"} -> Flag("expect_cells", "num")
          [] f \in {"-d", "--expected-ori"} -> Flag("expected_ori", "ori")
          [] f = "--min-reads" -> Flag("min_reads", "num")
          [] f \in {"-m", "--t2g-map"} -> Flag("t2g_map", "path")
          [] OTHER -> Flag("resolution", "resolution")]

Resolutions == {"cr-like", "cr-like-em", "parsimony", "parsimony-em", "parsimony-gene",
                "parsimony-gene-em"}

LooksLikeFlag(tok) == Len(tok) > 0 /\ SubSeq(tok, 1, 1) = "-"

RECURSIVE ParseArgs(_, _, _, _, _)
\* clap's walk over the arguments; `seen` collects the fields given explicitly
ParseArgs(toks, i, rec, seen, flags) ==
    IF i > Len(toks) THEN [rec |-> rec, seen |-> seen]
    ELSE IF toks[i] \notin DOMAIN flags THEN [rec |-> ParseError, seen |-> seen]
    ELSE LET fl == flags[toks[i]]
             has_val == i + 1 <= Len(toks)
             val == IF has_val THEN toks[i + 1] ELSE ""
             seen1 == seen \cup {fl.field}
         IN  IF fl.field \in seen THEN [rec |-> ParseError, seen |-> seen]
             ELSE IF fl.ty = "bool"
             THEN ParseArgs(toks, i + 1, [rec EXCEPT ![fl.field] = TRUE], seen1, flags)
             ELSE IF fl.ty = "optpath"
             THEN IF has_val /\ ~LooksLikeFlag(val)
                  THEN ParseArgs(toks, i + 2,
                                 [rec EXCEPT ![fl.field] = [given |-> TRUE, path |-> val]],
                                 seen1, flags)
                  ELSE ParseArgs(toks, i + 1,
                                 [rec EXCEPT ![fl.field] = [given |-> TRUE, path |-> NoPath]],
                                 seen1, flags)
             ELSE IF ~has_val \/ LooksLikeFlag(val) THEN [rec |-> ParseError, seen |-> seen]
             ELSE IF fl.ty = "num"
             THEN IF ParseU32(val) = NoneU THEN [rec |-> ParseError, seen |-> seen]
                  ELSE ParseArgs(toks, i + 2, [rec EXCEPT ![fl.field] = ParseU32(val)],
                                 seen1, flags)
             ELSE IF fl.ty = "reftype"
             THEN IF ref_type_parser(val) = "error" THEN [rec |-> ParseError, seen |-> seen]
                  ELSE ParseArgs(toks, i + 2, [rec EXCEPT ![fl.field] = ref_type_parser(val)],
                                 seen1, flags)
             ELSE IF fl.ty = "ori" /\ val \notin {"fw", "rc", "both"}
             THEN [rec |-> ParseError, seen |-> seen]
             ELSE IF fl.ty = "resolution" /\ val \notin Resolutions
             THEN [rec |-> ParseError, seen |-> seen]
             ELSE IF fl.ty = "list"
             THEN ParseArgs(toks, i + 2,
                            [rec EXCEPT ![fl.field] = SplitOn(val, {","}, 1, "", <<>>)],
                            seen1, flags)
             ELSE ParseArgs(toks, i + 2, [rec EXCEPT ![fl.field] = val], seen1, flags)

\* the requires / conflicts_with / ArgGroup rules of Commands::Index
IndexArgsValid(seen) ==
    /\ "output" \in seen
    /\ ("fasta" \in seen) # ("ref_seq" \in seen)
    /\ ("fasta" \in seen) <=> ("gtf" \in seen)
    /\ \A a \in {"rlen", "dedup", "spliced", "unspliced"} : a \in seen => "fasta" \in seen
    /\ "minimizer_length" \in seen => "use_piscem" \in seen
    /\ ~({"sparse", "use_piscem"} \subseteq seen)

\* the requires / conflicts_with / ArgGroup rules of Commands::Quant
QuantArgsValid(seen) ==
    /\ {"chemistry", "output", "resolution"} \subseteq seen
    /\ Cardinality(seen \cap {"knee", "unfiltered_pl", "forced_cells", "expect_cells"}) = 1
    /\ ("index" \in seen) # ("map_dir" \in seen)
    /\ "index" \in seen => {"reads1", "reads2"} \subseteq seen
    /\ \A a \in {"reads1", "reads2", "use_piscem"} : a \in seen => "index" \in seen

\* Cli::parse_from for the subcommands index, quant, inspect and run-workflow;
\* ParseError makes clap print its message and end the process
ParseCli(toks) ==
    IF Len(toks) < 2 THEN ParseError
    ELSE IF toks[2] = "index"
    THEN LET r == ParseArgs(toks, 3, IndexDefaults, {}, IndexFlags) IN
         IF r.rec.kind = "ParseError" \/ ~IndexArgsValid(r.seen) THEN ParseError ELSE r.rec
    ELSE IF toks[2] = "quant"
    THEN LET r == ParseArgs(toks, 3, QuantDefaults, {}, QuantFlags) IN
         IF r.rec.kind = "ParseError" \/ ~QuantArgsValid(r.seen) THEN ParseError ELSE r.rec
    ELSE IF toks[2] = "inspect" /\ Len(toks) = 2 THEN [kind |-> "Inspect"]
    ELSE IF toks[2] = "run-workflow"
    THEN IF Len(toks) = 2 THEN [kind |-> "RunWorkflow", jsons |-> <<>>]
         ELSE IF Len(toks) = 4 /\ toks[3] \in {"-j", "--jsons"} /\ ~LooksLikeFlag(toks[4])
         THEN [kind |-> "RunWorkflow", jsons |-> SplitOn(toks[4], {","}, 1, "", <<>>)]
         ELSE ParseError
    ELSE ParseError
----------------------------------------------------------------------------
(* set_paths *)

Registry(salmon, piscem, alevin_fry, pyroe) ==
    [present |-> TRUE, salmon |-> salmon, piscem |-> piscem, alevin_fry |-> alevin_fry,
     pyroe |-> pyroe]

\* ALEVIN_FRY_HOME holds no simpleaf_info.json
NoRegistry == [present |-> FALSE, salmon |-> FALSE, piscem |-> FALSE, alevin_fry |-> FALSE,
               pyroe |-> "absent"]

FullRegistry == Registry(TRUE, TRUE, TRUE, "ok")

InfoPath == Join(Home, "simpleaf_info.json")

\* what get_required_progs_from_paths can come back with: an error, or the
\* programs it located, each one there or not
ProgSearches ==
    {[err |-> TRUE, rp |-> NoRegistry]}
    \cup {[err |-> FALSE, rp |-> Registry(sa, pi, af, py)] :
            sa \in BOOLEAN, pi \in BOOLEAN, af \in BOOLEAN, py \in {"ok", "old", "absent"}}

\* the registry written although pyroe was not located
SetPathsOutcomeNoPyroeCheck(s, found) ==
    LET c == s.cur
        t == IF Home \notin s.files THEN Mkdir(s, Home) ELSE s
    IN  IF c.kind # "SetPaths" THEN Bail(s, "unexpected command")
        ELSE IF found.err THEN Bail(t, "get_required_progs_from_paths")
        ELSE IF ~(found.rp.salmon \/ found.rp.piscem) THEN Bail(t, "no mapper found")
        ELSE IF ~found.rp.alevin_fry THEN Bail(t, "no alevin_fry found")
        ELSE Return(WriteJson(t, InfoPath, [prog_info |-> found.rp]), Ok)

\* set_paths, with `found` the outcome of the search for the programs
SetPathsOutcome(s, found) ==
    LET c == s.cur
        t == IF Home \notin s.files THEN Mkdir(s, Home) ELSE s
    IN  IF c.kind # "SetPaths" THEN Bail(s, "unexpected command")
        ELSE IF found.err THEN Bail(t, "get_required_progs_from_paths")
        ELSE IF ~(found.rp.salmon \/ found.rp.piscem) THEN Bail(t, "no mapper found")
        ELSE IF ~found.rp.alevin_fry THEN Bail(t, "no alevin_fry found")
        ELSE IF found.rp.pyroe = "absent" THEN Bail(t, "no pyroe found")
        ELSE Return(WriteJson(t, InfoPath, [prog_info |-> found.rp]), Ok)

SetPaths ==
    /\ pc = "sp_start"
    /\ \E found \in ProgSearches : Apply(SetPathsOutcome(S, found))
----------------------------------------------------------------------------
(* add_chemistry *)

\* extract_geometry: whether the geometry string given is well formed
extract_geometry(geometry) == entry.geometry_ok

\* the mapping read from the custom chemistry file just opened: an empty
\* object when the file is new or does not hold JSON
ReadCustomChem(s) ==
    IF CustomChemPath \in s.files /\ CustomChemPath \in DOMAIN s.json
    THEN s.json[CustomChemPath]
    ELSE <<>>

\* the file rewritten with the new entry alone
AddChemistryOutcomeFresh(s) ==
    LET c == s.cur
        v == <<>>
        nv == [n \in DOMAIN v \cup {c.name} |-> IF n = c.name THEN c.geometry ELSE v[n]]
    IN  IF c.kind # "AddChemistry" THEN Bail(s, "unknown command")
        ELSE IF ~extract_geometry(c.geometry) THEN Bail(s, "extract_geometry")
        ELSE Return(WriteJson(s, CustomChemPath, nv), Ok)

AddChemistryOutcome(s) ==
    LET c == s.cur
        v == ReadCustomChem(s)
        nv == [n \in DOMAIN v \cup {c.name} |-> IF n = c.name THEN c.geometry ELSE v[n]]
    IN  IF c.kind # "AddChemistry" THEN Bail(s, "unknown command")
        ELSE IF ~extract_geometry(c.geometry) THEN Bail(s, "extract_geometry")
        ELSE Return(WriteJson(s, CustomChemPath, nv), Ok)

AddChemistry ==
    /\ pc = "ac_start"
    /\ Apply(AddChemistryOutcome(S))
----------------------------------------------------------------------------
(* main *)

Cli == [fn |-> "", f |-> 0, r |-> 0, key |-> "cli"]

\* the argument vector main hands to the parser
MainArgs ==
    <<"simplef", "run-workflow", "-j", "/mnt/scratch5/dongze/CODE/rust/playground/CITE-seq.json">>

\* Cli::parse_from on that vector
MainCli == ParseCli(MainArgs)

\* the workflow files run_workflow is given: its argument when the process is
\* entered at run_workflow, the ones main has parsed when entered at main
Jsons == IF entry.fn = "main" THEN MainCli.jsons ELSE entry.jsons

\* the function main's match calls for a parsed command
FnOf(cli) ==
    CASE cli.kind = "Index" -> "idx_start"
      [] cli.kind = "Quant" -> "q_start"
      [] OTHER -> "rw_start"

\* main: the home directory from the environment, the parse, the match
MainOutcome(s) ==
    LET cli_args == MainCli IN
    IF ~entry.af_home THEN Bail(s, "ALEVIN_FRY_HOME is unset")
    ELSE IF cli_args.kind = "ParseError"
    THEN [Log(s, "exit", "clap", <<"2">>) EXCEPT
            !.pc = "done", !.result = [k |-> "exit", at |-> "clap"]]
    ELSE [Log(s, "dispatch", cli_args.kind,
              IF cli_args.kind = "RunWorkflow" THEN cli_args.jsons ELSE <<>>) EXCEPT
            !.cur = cli_args, !.org.fn = FnOf(cli_args), !.pc = FnOf(cli_args)]

Main ==
    /\ pc = "main"
    /\ Apply(MainOutcome(S))

\* the exit status of the process: 0 from Ok(()), 1 from an Err that main
\* returns, 101 from a panic, 2 from clap
ExitCode(res) ==
    CASE res.k = "ok" -> 0
      [] res.k = "err" -> 1
      [] res.k = "panic" -> 101
      [] OTHER -> 2
----------------------------------------------------------------------------
(* run_workflow *)

RwLocals == [fi |-> 1, index_cmd_v |-> <<>>, quant_cmd_v |-> <<>>, ii |-> 0, qi |-> 0]

\* the command strings of the workflow records
IdxCmdA == "simpleaf index --ref-seq refA.fa -o outA -t 1"
IdxCmdB == "simpleaf  index --refseq refB.fa --output outB --use-piscem"
QuantCmdA == "simpleaf quant --map-dir mapdir -c 10xv2 -k -r cr-like -m t2g.tsv -o outq"
\* a quant command with no filter option
BadCmd == "simpleaf quant --map-dir mapdir -c 10xv2 -r cr-like -m t2g.tsv -o outq"

\* Cli::parse_from on the argument vector of each of them, computed once
ParsedCmds ==
    [c \in {IdxCmdA, IdxCmdB, QuantCmdA, BadCmd} |-> ParseCli(CmdVec(c))]

\* Cli::parse_from on the argument vector built from a record's "cmd"
ParseCmd(cmd) == IF cmd \in DOMAIN ParsedCmds THEN ParsedCmds[cmd] ELSE ParseCli(CmdVec(cmd))

RECURSIVE ParseRecords(_, _, _, _)
\* the commands of one mapping of a workflow file, in its iteration order;
\* bad is set when Cli::parse_from rejects a command string
ParseRecords(recs, j, fi, key) ==
    IF j > Len(recs) THEN [bad |-> FALSE, v |-> <<>>]
    ELSE IF ~recs[j].has_cmd THEN ParseRecords(recs, j + 1, fi, key)
    ELSE LET parsed_cmd == ParseCmd(recs[j].cmd) IN
         IF parsed_cmd.kind = "ParseError" THEN [bad |-> TRUE, v |-> <<>>]
         ELSE LET rest == ParseRecords(recs, j + 1, fi, key) IN
              [bad |-> rest.bad,
               v |-> <<[command |-> parsed_cmd, f |-> fi, r |-> j, key |-> key]>> \o rest.v]

\* the function the replay loop over index_cmd_v calls
IndexReplayEntry == "idx_start"

\* the function the replay loop over quant_cmd_v calls
QuantReplayEntry == "idx_start"

\* commands put at the front of the queue
PushFront(v, parsed) == parsed \o v

\* Vec::push of each parsed command, in turn
Push(v, parsed) == v \o parsed

RwStart ==
    /\ pc = "rw_start"
    /\ Apply(IF ~check_files_exist(files, Jsons) THEN Bail(S, "missing input")
             ELSE [S EXCEPT !.pc = "rw_parse", !.rw = RwLocals])

\* a command string that does not parse is passed over
RwParseFileOutcomeLenient(s) ==
    LET jf == Jsons[s.rw.fi]
        recs == s.json[jf]
        ix == IF recs.has_index THEN ParseRecords(recs.index, 1, s.rw.fi, "index")
              ELSE [bad |-> FALSE, v |-> <<>>]
        qx == IF recs.has_quant THEN ParseRecords(recs.quant, 1, s.rw.fi, "quant")
              ELSE [bad |-> FALSE, v |-> <<>>]
    IN  IF jf \notin DOMAIN s.json THEN Bail(s, "read_workflow_json")
        ELSE [s EXCEPT !.rw.fi = @ + 1,
                       !.rw.index_cmd_v = Push(@, ix.v),
                       !.rw.quant_cmd_v = Push(@, qx.v),
                       !.pc = IF s.rw.fi = Len(Jsons) THEN "rw_run" ELSE "rw_parse"]

\* one iteration of "iterate json files and parse records to commands"
RwParseFileOutcome(s) ==
    LET jf == Jsons[s.rw.fi]
        recs == s.json[jf]
        ix == IF recs.has_index THEN ParseRecords(recs.index, 1, s.rw.fi, "index")
              ELSE [bad |-> FALSE, v |-> <<>>]
        qx == IF recs.has_quant THEN ParseRecords(recs.quant, 1, s.rw.fi, "quant")
              ELSE [bad |-> FALSE, v |-> <<>>]
    IN  IF jf \notin DOMAIN s.json THEN Bail(s, "read_workflow_json")
        ELSE IF ix.bad \/ qx.bad
        THEN [Log(s, "exit", "clap", <<"2">>) EXCEPT
                !.pc = "done", !.result = [k |-> "exit", at |-> "clap"]]
        ELSE [s EXCEPT !.rw.fi = @ + 1,
                       !.rw.index_cmd_v = Push(@, ix.v),
                       !.rw.quant_cmd_v = Push(@, qx.v),
                       !.pc = IF s.rw.fi = Len(Jsons) THEN "rw_run" ELSE "rw_parse"]

RwParseFile ==
    /\ pc = "rw_parse"
    /\ rw.fi <= Len(Jsons)
    /\ Apply(RwParseFileOutcome(S))

\* call a command function on a queued command
Call(s, q, fnpc) ==
    [s EXCEPT !.cur = q.command, !.org = [fn |-> fnpc, f |-> q.f, r |-> q.r, key |-> q.key],
              !.loc = [threads |-> 0], !.pc = fnpc]

\* the replay loops in the other order
RwRunQuantFirst(s) ==
    IF s.rw.qi < Len(s.rw.quant_cmd_v)
    THEN Call([s EXCEPT !.rw.qi = @ + 1], s.rw.quant_cmd_v[s.rw.qi + 1], QuantReplayEntry)
    ELSE IF s.rw.ii < Len(s.rw.index_cmd_v)
    THEN Call([s EXCEPT !.rw.ii = @ + 1], s.rw.index_cmd_v[s.rw.ii + 1], IndexReplayEntry)
    ELSE [s EXCEPT !.pc = "done", !.result = Ok]

\* the two replay loops, then Ok(())
RwRunOutcome(s) ==
    IF s.rw.ii < Len(s.rw.index_cmd_v)
    THEN Call([s EXCEPT !.rw.ii = @ + 1], s.rw.index_cmd_v[s.rw.ii + 1], IndexReplayEntry)
    ELSE IF s.rw.qi < Len(s.rw.quant_cmd_v)
    THEN Call([s EXCEPT !.rw.qi = @ + 1], s.rw.quant_cmd_v[s.rw.qi + 1], QuantReplayEntry)
    ELSE [s EXCEPT !.pc = "done", !.result = Ok]

RwRun ==
    /\ pc = "rw_run"
    /\ Apply(RwRunOutcome(S))
----------------------------------------------------------------------------
(* The initial states: the invocation, the registry and the file system *)

HostPars == 0..MaxPar
ThreadCounts == 1..MaxThreads

EmptyJson == [p \in {} |-> 0]

\* the subsets of `all` with at most one element
AtMostOne(all) == {{}} \cup {{x} : x \in all}

Scenario(e, reg, h, fs, js) == [entry |-> e, rp |-> reg, hostpar |-> h, files |-> fs, json |-> js]

(* Index invoked directly *)
IndexCommands ==
    {[IndexDefaults EXCEPT !.output = "out", !.fasta = "g.fa", !.gtf = "g.gtf",
                           !.ref_type = rt, !.rlen = rl, !.use_piscem = up, !.threads = t] :
        rt \in {"SplicedIntronic", "SplicedUnspliced"}, rl \in {NoneU, ShortRlen, LongRlen},
        up \in BOOLEAN, t \in ThreadCounts}
    \cup
    {[IndexDefaults EXCEPT !.output = "out", !.ref_seq = "ref.fa", !.use_piscem = up,
                           !.threads = t] :
        up \in BOOLEAN, t \in ThreadCounts}
    \cup
    {[IndexDefaults EXCEPT !.output = "out", !.ref_seq = "ref.fa", !.use_piscem = TRUE,
                           !.kmer_length = ShortKmer, !.threads = 1]}

IndexRegistries ==
    {Registry(sa, pi, TRUE, py) : sa \in BOOLEAN, pi \in BOOLEAN, py \in {"absent", "old", "ok"}}
    \cup {NoRegistry}

IndexScenarios ==
    {Scenario([fn |-> "build_ref_and_index", command |-> c], reg, h, fs, EmptyJson) :
        c \in IndexCommands, reg \in IndexRegistries, h \in HostPars,
        fs \in {{"g.fa", "g.gtf", "ref.fa"}, {"g.fa", "ref.fa"}, {"g.fa", "g.gtf"}}}

(* Quant invoked directly *)
QuantOnMapDir ==
    [QuantDefaults EXCEPT !.chemistry = "10xv2", !.output = "outq", !.map_dir = "mapdir",
                          !.knee = TRUE, !.resolution = "cr-like", !.t2g_map = "t2g.tsv",
                          !.threads = 1]

QuantOnIndex ==
    [QuantDefaults EXCEPT !.chemistry = "10xv2", !.output = "outq", !.index = "idx",
                          !.reads1 = <<"r1.fq">>, !.reads2 = <<"r2.fq">>,
                          !.knee = TRUE, !.resolution = "cr-like", !.threads = 1]

IndexMetaPath == Join("idx", "simpleaf_index.json")

PermitLists == {PermitListFile(TenxV2), PermitListFile(TenxV3)}

QuantFiles ==
    {"r1.fq", "r2.fq", "t2g.tsv", "idx", Join("idx", "t2g_3col.tsv"), "mapdir", "pl.txt"}
    \cup {WithExtension(b, e) : b \in {"idx", Join("idx", "piscem_idx")},
                               e \in {"ctab", "refinfo", "sshash"}}

Geometry == "1{b[16]u[12]x:}2{r:}"

\* the states of <index>/simpleaf_index.json: absent, unreadable, or a record
IndexMetaStates ==
    {[fs |-> {}, js |-> EmptyJson], [fs |-> {IndexMetaPath}, js |-> EmptyJson]}
    \cup {[fs |-> {IndexMetaPath},
           js |-> IndexMetaPath :> [index_type |-> ty, t2g_file |-> t2g]] :
            ty \in {"salmon", "piscem", "sshash"}, t2g \in {NoPath, "t2g_3col.tsv"}}

\* the states of the custom chemistry file: absent, unreadable, or a mapping
CustomChemStates ==
    {[fs |-> {}, js |-> EmptyJson], [fs |-> {CustomChemPath}, js |-> EmptyJson],
     [fs |-> {CustomChemPath}, js |-> CustomChemPath :> ("mychem" :> Geometry)],
     [fs |-> {CustomChemPath}, js |-> CustomChemPath :> ("otherchem" :> Geometry)]}

\* index type and transcript-to-gene map: the command against the index metadata
QuantIndexScenarios ==
    {Scenario([fn |-> "map_and_quant",
               command |-> [QuantOnIndex EXCEPT !.use_piscem = up, !.t2g_map = t2g]],
              Registry(sa, pi, TRUE, "ok"), 0, QuantFiles \cup m.fs, m.js) :
        up \in BOOLEAN, t2g \in {NoPath, "t2g.tsv"}, sa \in BOOLEAN, pi \in BOOLEAN,
        m \in IndexMetaStates}

\* the filter options as the parser lets them through: exactly one of the
\* "filter" group, with or without an explicit list
FilterChoices ==
    {[knee |-> g.knee, unfiltered_pl |-> g.unfiltered_pl, forced_cells |-> g.forced_cells,
      expect_cells |-> g.expect_cells, explicit_pl |-> x] :
        g \in {[knee |-> TRUE, unfiltered_pl |-> NoUnfiltered, forced_cells |-> NoneU,
                expect_cells |-> NoneU],
               [knee |-> FALSE, unfiltered_pl |-> [given |-> TRUE, path |-> NoPath],
                forced_cells |-> NoneU, expect_cells |-> NoneU],
               [knee |-> FALSE, unfiltered_pl |-> [given |-> TRUE, path |-> "pl.txt"],
                forced_cells |-> NoneU, expect_cells |-> NoneU],
               [knee |-> FALSE, unfiltered_pl |-> [given |-> TRUE, path |-> "gone.txt"],
                forced_cells |-> NoneU, expect_cells |-> NoneU],
               [knee |-> FALSE, unfiltered_pl |-> NoUnfiltered, forced_cells |-> Cells,
                expect_cells |-> NoneU],
               [knee |-> FALSE, unfiltered_pl |-> NoUnfiltered, forced_cells |-> NoneU,
                expect_cells |-> Cells]},
        x \in {NoPath, "pl.txt"}}

\* chemistry, orientation and filter on a mapped directory
QuantResolveScenarios ==
    {Scenario([fn |-> "map_and_quant",
               command |-> [QuantOnMapDir EXCEPT !.chemistry = ch, !.expected_ori = ori,
                                !.knee = f.knee, !.unfiltered_pl = f.unfiltered_pl,
                                !.forced_cells = f.forced_cells, !.expect_cells = f.expect_cells,
                                !.explicit_pl = f.explicit_pl]],
              FullRegistry, 0, QuantFiles \cup cc.fs, cc.js) :
        ch \in {"10xv2", "10xv3", "mychem"}, ori \in {"", "rc"}, f \in FilterChoices,
        cc \in CustomChemStates}

\* the stages: threads, registry and missing inputs
QuantStageScenarios ==
    {Scenario([fn |-> "map_and_quant", command |-> [c EXCEPT !.threads = t]],
              reg, h, fs, EmptyJson) :
        c \in {QuantOnMapDir, [QuantOnIndex EXCEPT !.t2g_map = "t2g.tsv"],
               [QuantOnIndex EXCEPT !.t2g_map = "t2g.tsv", !.use_piscem = TRUE]},
        t \in ThreadCounts, h \in HostPars,
        reg \in {FullRegistry, Registry(TRUE, TRUE, FALSE, "ok"), NoRegistry},
        fs \in {QuantFiles \ gone : gone \in AtMostOne({"r1.fq", "t2g.tsv", "idx", "idx.ctab", "mapdir"})}}

QuantScenarios == QuantIndexScenarios \cup QuantResolveScenarios \cup QuantStageScenarios
(* run-workflow *)

Rec(name, cmd) == [name |-> name, has_cmd |-> TRUE, cmd |-> cmd]
NoCmdRec(name) == [name |-> name, has_cmd |-> FALSE, cmd |-> ""]

\* what read_workflow_json yields for a file: the optional index and quant
\* mappings, each as the sequence of its records in the order the loop meets them
Workflow(has_index, index, has_quant, quant) ==
    [has_index |-> has_index, index |-> index, has_quant |-> has_quant, quant |-> quant]

\* the workflow descriptions on disk
WorkflowJson ==
    ("wf1.json" :> Workflow(TRUE, <<Rec("a", IdxCmdA)>>, TRUE, <<Rec("q", QuantCmdA)>>))
    @@ ("wf2.json" :> Workflow(TRUE, <<Rec("b", IdxCmdB), Rec("a", IdxCmdA)>>, FALSE, <<>>))
    @@ ("wf3.json" :> Workflow(FALSE, <<>>, TRUE, <<Rec("q", QuantCmdA), Rec("x", IdxCmdB)>>))
    @@ ("wf4.json" :> Workflow(TRUE, <<NoCmdRec("n"), Rec("q", QuantCmdA)>>, TRUE, <<>>))
    @@ ("wf5.json" :> Workflow(TRUE, <<Rec("a", IdxCmdA)>>, TRUE, <<Rec("bad", BadCmd)>>))

WorkflowFiles == DOMAIN WorkflowJson

RECURSIVE SeqsUpTo(_, _)
\* the non-empty sequences over S of length at most n
SeqsUpTo(set, n) ==
    IF n = 0 THEN {}
    ELSE {<<x>> : x \in set} \cup {Append(q, x) : q \in SeqsUpTo(set, n - 1), x \in set}

WorkflowScenarios ==
    {Scenario([fn |-> "run_workflow", jsons |-> js], reg, h,
              (QuantFiles \cup {"refA.fa", "refB.fa"} \cup WorkflowFiles) \ gone,
              [p \in WorkflowFiles \ bad |-> WorkflowJson[p]]) :
        js \in SeqsUpTo(WorkflowFiles, MaxFiles),
        reg \in {FullRegistry, Registry(FALSE, TRUE, TRUE, "ok")},
        h \in HostPars,
        gone \in AtMostOne({"refA.fa", "wf1.json"}),
        bad \in AtMostOne({"wf2.json"})}

(* the program started at main *)
\* what the user typed
UserArgs ==
    {split_whitespace(IdxCmdA), split_whitespace(QuantCmdA),
     <<"simpleaf", "run-workflow", "-j", "wf2.json">>}

\* the workflow file named in main may be absent, empty or a copy of wf1.json
MainScenarios ==
    {Scenario([fn |-> "main", args |-> a, af_home |-> home], FullRegistry, MaxPar,
              (QuantFiles \cup {"refA.fa", "refB.fa"} \cup WorkflowFiles)
                 \cup (IF there = "absent" THEN {} ELSE {MainArgs[4]}),
              IF there = "absent" THEN WorkflowJson
              ELSE WorkflowJson @@
                   (MainArgs[4] :> IF there = "empty" THEN Workflow(FALSE, <<>>, FALSE, <<>>)
                                   ELSE WorkflowJson["wf1.json"])) :
        a \in UserArgs, home \in BOOLEAN, there \in {"absent", "empty", "wf1"}}

\* set-paths with the programs named or left to be searched for, on a home
\* directory that is missing, empty, or holding a registry file
SetPathsScenarios ==
    {Scenario([fn |-> "set_paths",
               command |-> [kind |-> "SetPaths", salmon |-> sa, piscem |-> NoPath,
                            alevin_fry |-> NoPath, pyroe |-> NoPath]],
              h.rp, MaxPar, h.fs, h.js) :
        sa \in {NoPath, "bin/salmon"},
        h \in {[rp |-> NoRegistry, fs |-> {}, js |-> EmptyJson],
               [rp |-> NoRegistry, fs |-> {Home}, js |-> EmptyJson],
               [rp |-> NoRegistry, fs |-> {Home, InfoPath}, js |-> EmptyJson]}
              \cup {[rp |-> old, fs |-> {Home, InfoPath},
                     js |-> InfoPath :> [prog_info |-> old]] :
                      old \in {FullRegistry, Registry(TRUE, FALSE, TRUE, "ok")}}}

NewGeometry == "1{b[12]u[8]x:}2{r:}"

\* add-chemistry under a new name, a name already in the mapping or a
\* built-in name, with a well-formed geometry or a malformed one
AddChemistryScenarios ==
    {Scenario([fn |-> "add_chemistry",
               command |-> [kind |-> "AddChemistry", name |-> n, geometry |-> g.s],
               geometry_ok |-> g.ok],
              FullRegistry, MaxPar, cc.fs, cc.js) :
        n \in {"mychem", "10xv2"},
        g \in {[s |-> NewGeometry, ok |-> TRUE], [s |-> "16bc", ok |-> FALSE]},
        cc \in CustomChemStates}

Scenarios ==
    IndexScenarios \cup QuantScenarios \cup WorkflowScenarios \cup MainScenarios
    \cup SetPathsScenarios \cup AddChemistryScenarios

EntryPc(fn) ==
    CASE fn = "build_ref_and_index" -> "idx_start"
      [] fn = "map_and_quant" -> "q_start"
      [] fn = "main" -> "main"
      [] fn = "set_paths" -> "sp_start"
      [] fn = "add_chemistry" -> "ac_start"
      [] OTHER -> "rw_start"

\* the state a process starts in, for each of the scenarios scs
InitFrom(scs) ==
    \E sc \in scs :
        /\ entry = sc.entry
        /\ rp = sc.rp
        /\ hostpar = sc.hostpar
        /\ files = sc.files
        /\ json = sc.json
        /\ pc = EntryPc(sc.entry.fn)
        /\ cur = IF sc.entry.fn = "run_workflow" THEN [kind |-> "RunWorkflow"]
                 ELSE IF sc.entry.fn = "main" THEN [kind |-> "Cli"]
                 ELSE sc.entry.command
        /\ org = [Cli EXCEPT !.fn = EntryPc(sc.entry.fn)]
        /\ loc = [threads |-> 0]
        /\ proc = "none"
        /\ rw = RwLocals
        /\ result = Running
        /\ trace = <<>>

Init == InitFrom(Scenarios)

Next ==
    \/ IdxStart \/ IdxMkdir \/ IdxRef \/ IdxPyroeExit \/ IdxBuild \/ IdxBuildExit \/ IdxLog
    \/ QStart \/ QIndexType \/ QChem \/ QFilter \/ QMap \/ QMapExit
    \/ QGpl \/ QGplExit \/ QCollate \/ QCollateExit \/ QQuant \/ QQuantExit \/ QLog
    \/ RwStart \/ RwParseFile \/ RwRun
    \/ Main \/ SetPaths \/ AddChemistry

Spec == Init /\ [][Next]_vars

\* a child process exits
ProcessExit ==
    IdxPyroeExit \/ IdxBuildExit \/ QMapExit \/ QGplExit \/ QCollateExit \/ QQuantExit

\* a step of the orchestrating thread itself
ProgramStep ==
    \/ IdxStart \/ IdxMkdir \/ IdxRef \/ IdxBuild \/ IdxLog
    \/ QStart \/ QIndexType \/ QChem \/ QFilter \/ QMap \/ QGpl \/ QCollate \/ QQuant \/ QLog
    \/ RwStart \/ RwParseFile \/ RwRun \/ Main \/ SetPaths \/ AddChemistry

\* a few runs of each kind, with every tool registered and every input there
LiveScenarios ==
    {Scenario([fn |-> "build_ref_and_index",
               command |-> [IndexDefaults EXCEPT !.output = "out", !.fasta = "g.fa",
                                                 !.gtf = "g.gtf", !.rlen = LongRlen,
                                                 !.use_piscem = up, !.threads = MaxThreads]],
              FullRegistry, MaxPar, {"g.fa", "g.gtf"}, EmptyJson) : up \in BOOLEAN}
    \cup {Scenario([fn |-> "map_and_quant", command |-> c], FullRegistry, MaxPar,
                   QuantFiles, EmptyJson) :
            c \in {QuantOnMapDir, [QuantOnIndex EXCEPT !.t2g_map = "t2g.tsv"]}}
    \cup {sc \in WorkflowScenarios :
            /\ sc.entry.jsons \in {<<"wf1.json">>, <<"wf2.json">>}
            /\ sc.rp = FullRegistry /\ sc.hostpar = MaxPar
            /\ WorkflowFiles \subseteq sc.files}
    \cup {sc \in MainScenarios : sc.entry.args[2] = "index"}
    \cup {sc \in SetPathsScenarios : sc.entry.command.salmon = NoPath /\ InfoPath \in sc.files}
    \cup {sc \in AddChemistryScenarios : sc.entry.command.name = "mychem"}

\* the thread runs on whenever it can, and every child process exits in the end
LiveSpec ==
    InitFrom(LiveScenarios) /\ [][Next]_vars /\ WF_vars(ProgramStep) /\ WF_vars(ProcessExit)
----------------------------------------------------------------------------
(* Reading the history *)

Stages == {"pyroe", "index", "map", "gpl", "collate", "quant"}

Events == 1..Len(trace)

IsSpawn(i) == trace[i].e = "spawn"
IsStageExit(i) == trace[i].e = "exit" /\ trace[i].s \in Stages
IsFailedExit(i) == IsStageExit(i) /\ trace[i].a = <<"1">>
IsStart(i) == trace[i].e = "start"
IsErrReturn(i) == trace[i].e = "return" /\ trace[i].s = "err"
IsOkReturn(i) == trace[i].e = "return" /\ trace[i].s = "ok"
IsReplay(i) == trace[i].key \in {"index", "quant"}

\* the events of the command that event i belongs to, up to i
SameCommandBefore(i) == {j \in 1..i : \A k \in (j + 1)..i : ~IsStart(k)}

Direct == entry.fn \in {"build_ref_and_index", "map_and_quant"}

----------------------------------------------------------------------------
(* C1: once a stage's process has exited with a non-zero status, the command
   returns an error at once and no process is spawned afterwards, on the
   Index path (pyroe, index) and on the Quant path (map, gpl, collate, quant). *)
C1_HaltOnFirstFailure ==
    \A i \in Events :
        IsFailedExit(i) =>
            /\ i + 1 = Len(trace)
            /\ IsErrReturn(i + 1)
            /\ pc = "done" /\ result.k = "err" /\ proc = "none"
            /\ \A j \in Events : j > i => ~IsSpawn(j)

\* the permit-list stage fails after a successful mapping stage
C1_Witness ==
    \E i, j \in Events :
        /\ j < i
        /\ IsFailedExit(i) /\ trace[i].s = "gpl"
        /\ IsStageExit(j) /\ trace[j].s = "map" /\ trace[j].a = <<"0">>


(* C2: every replayed record is executed as if its command had been invoked
   directly: an Index command enters build_ref_and_index, a Quant command
   enters map_and_quant. *)
C2_ReplayRunsTheCommandsOwnPath ==
    \A i \in Events :
        IsStart(i) /\ IsReplay(i) =>
            /\ trace[i].s = "Index" => trace[i].fn = EntryPc("build_ref_and_index")
            /\ trace[i].s = "Quant" => trace[i].fn = EntryPc("map_and_quant")

RECURSIVE RecordsWithCmd(_, _, _, _)
\* the records of key `key` that carry a cmd, as <<file, record>>, files from fi on
RecordsWithCmd(jsons, js, key, fi) ==
    IF fi > Len(jsons) THEN <<>>
    ELSE LET w == IF jsons[fi] \in DOMAIN js THEN js[jsons[fi]]
                  ELSE [has_index |-> FALSE, has_quant |-> FALSE]
             recs == IF key = "index" THEN (IF w.has_index THEN w.index ELSE <<>>)
                     ELSE (IF w.has_quant THEN w.quant ELSE <<>>)
             here == SelectSeq([r \in 1..Len(recs) |-> <<fi, IF recs[r].has_cmd THEN r ELSE 0>>],
                               LAMBDA x : x[2] # 0)
         IN  here \o RecordsWithCmd(jsons, js, key, fi + 1)

\* the <<file, record>> of the replayed commands of a key, in the order they started
StartedOf(key) ==
    LET st == SelectSeq(trace, LAMBDA e : e.e = "start" /\ e.key = key)
    IN  [k \in 1..Len(st) |-> <<st[k].f, st[k].r>>]

Range(q) == {q[k] : k \in 1..Len(q)}

(* C3: when the first quant record's command starts, every index record of
   every workflow file has been started and has returned Ok, and no event of an
   index record follows. *)
C3_IndexBeforeQuant ==
    \A i \in Events :
        IsStart(i) /\ trace[i].key = "quant" =>
            /\ \A j \in Events : j > i => trace[j].key # "index"
            /\ Range(RecordsWithCmd(Jsons, json, "index", 1))
                 = {<<trace[j].f, trace[j].r>> : j \in {k \in 1..i : IsOkReturn(k) /\ trace[k].key = "index"}}

\* a quant record of the first file starts after an index record of the second
C3_Witness ==
    \E i, j \in Events :
        /\ j < i
        /\ IsStart(i) /\ trace[i].key = "quant" /\ trace[i].f = 1
        /\ IsOkReturn(j) /\ trace[j].key = "index" /\ trace[j].f = 2


(* C4: when a replayed command returns an error, it is the last thing that
   happens: run-workflow ends with that error and starts no further command;
   nor is a command started after a replayed command has panicked. *)
C4_ReplayAbortsOnFailure ==
    \A i \in Events :
        /\ IsErrReturn(i) /\ IsReplay(i) =>
              /\ i = Len(trace)
              /\ pc = "done"
              /\ result = Err(trace[i].a[1])
        /\ trace[i].e = "panic" /\ IsReplay(i) =>
              /\ i = Len(trace)
              /\ pc = "done" /\ result.k = "panic"

\* an index command fails while index and quant commands are still queued
C4_Witness ==
    /\ entry.fn = "run_workflow"
    /\ Len(trace) > 0
    /\ IsErrReturn(Len(trace)) /\ trace[Len(trace)].key = "index"
    /\ rw.ii < Len(rw.index_cmd_v)
    /\ Len(rw.quant_cmd_v) > 0


IsPrefix(p, q) == Len(p) <= Len(q) /\ \A k \in 1..Len(p) : p[k] = q[k]

(* C5: the replayed commands of one kind start in the order of the workflow
   files given and, within a file, in the order of the records of its index
   (resp. quant) mapping. *)
C5_ReplayOrder ==
    entry.fn = "run_workflow" =>
        \A key \in {"index", "quant"} :
            IsPrefix(StartedOf(key), RecordsWithCmd(Jsons, json, key, 1))

\* both index records of the first file, then the one of the second, have started
C5_Witness ==
    /\ entry.fn = "run_workflow"
    /\ StartedOf("index") = <<<<1, 1>>, <<1, 2>>, <<2, 1>>>>

ConfigErrors ==
    {"no rlen", "pyroe version", "no piscem", "no salmon", "no mapper",
     "unknown index type", "no t2g", "no filter"}

(* C6: a command that ends with a configuration failure (the executable of the
   resolved index type is missing, no transcript-to-gene map, no filter
   strategy, no read length, a version constraint is not met) has spawned no
   external process before the failure is reported. *)
C6_ConfigErrorsBeforeAnyProcess ==
    \A i \in Events :
        IsErrReturn(i) /\ trace[i].a[1] \in ConfigErrors =>
            \A j \in SameCommandBefore(i) : ~IsSpawn(j)

\* whether the program a spawned stage runs is in the registry
ToolRegistered(stage, argv) ==
    CASE stage = "pyroe" -> rp.pyroe # "absent"
      [] stage \in {"gpl", "collate", "quant"} -> rp.alevin_fry
      [] argv[1] = "piscem" -> rp.piscem
      [] OTHER -> rp.salmon

(* C7: when the tool a stage needs is absent from the registry, the stage's
   process is not spawned and the command ends with a reported error (an Err
   return), not with a panic. *)
C7_AbsentToolIsAReportedError ==
    \A i \in Events :
        /\ IsSpawn(i) => ToolRegistered(trace[i].s, trace[i].a)
        /\ trace[i].e = "panic" => trace[i].s \notin {"unwrap pyroe", "unwrap alevin_fry"}

LogPath ==
    Join(cur.output, IF cur.kind = "Index" THEN "simpleaf_index_log.json"
                     ELSE "simpleaf_quant_log.json")

\* the command line a stage was spawned with
SpawnedCmd(stage) ==
    LET i == CHOOSE k \in Events : IsSpawn(k) /\ trace[k].s = stage
    IN  get_cmd_line_string(trace[i].a)

(* C8: when an Index or Quant run that completed at least one stage ends, with
   Ok or with an error, the provenance record has been written exactly once
   and holds the command line and the duration of every completed stage. *)
C8_ProvenanceAtEveryEnd ==
    Direct /\ pc = "done" /\ result.k \in {"ok", "err"} /\ (\E i \in Events : IsStageExit(i)) =>
        /\ Cardinality({i \in Events : trace[i].e = "write" /\ trace[i].s = LogPath}) = 1
        /\ \A i \in Events :
              IsStageExit(i) =>
                  /\ json[LogPath].cmd_info[trace[i].s \o "_cmd"] = SpawnedCmd(trace[i].s)
                  /\ json[LogPath].time_info[trace[i].s \o "_time"] = loc[trace[i].s \o "_duration"]

(* C9: in the record a successful Quant run writes, each of map_cmd, gpl_cmd,
   collate_cmd and quant_cmd is the command line of the stage of that name as
   it was invoked, and each of map_time, gpl_time, collate_time and quant_time
   is the duration measured for the stage of that name. *)
C9_QuantLogMatchesStages ==
    entry.fn = "map_and_quant" /\ pc = "done" /\ result = Ok =>
        \A i \in Events :
            IsSpawn(i) =>
                /\ json[LogPath].cmd_info[trace[i].s \o "_cmd"] = get_cmd_line_string(trace[i].a)
                /\ json[LogPath].time_info[trace[i].s \o "_time"] = loc[trace[i].s \o "_duration"]

\* a Quant run on an index directory, without use-piscem, past the resolution step
ResolvedWithoutFlag ==
    /\ entry.fn = "map_and_quant" /\ cur.kind = "Quant"
    /\ cur.index # NoPath /\ ~cur.use_piscem
    /\ pc # "q_index_type" /\ "index_type" \in DOMAIN loc

(* C10: in a Quant run on index directory D without use-piscem, the type the
   resolution step yields is decided by D/simpleaf_index.json: "piscem" gives
   Piscem(D/piscem_idx), "salmon" gives Salmon(D), no metadata file gives
   Salmon(D), and with any other recorded type the run ends in an error. *)
C10_IndexTypeFromMetadata ==
    ResolvedWithoutFlag =>
        LET D == cur.index
            meta == Join(D, "simpleaf_index.json")
            ty == json[meta].index_type
        IN  IF meta \notin files THEN loc.index_type = Salmon(D)
            ELSE IF ty = "piscem" THEN loc.index_type = Piscem(Join(D, "piscem_idx"))
            ELSE IF ty = "salmon" THEN loc.index_type = Salmon(D)
            ELSE pc = "done" /\ result = Err("unknown index type")

\* the metadata says piscem and the resolution has yielded the piscem_idx base
C10_Witness ==
    /\ ResolvedWithoutFlag
    /\ Join(cur.index, "simpleaf_index.json") \in DOMAIN json
    /\ json[Join(cur.index, "simpleaf_index.json")].index_type = "piscem"
    /\ loc.index_type = Piscem(Join(cur.index, "piscem_idx"))
    /\ \E i \in Events : IsSpawn(i) /\ trace[i].s = "map"

\* a Quant run called directly that is past the index-type resolution step
PastIndexType ==
    /\ entry.fn = "map_and_quant" /\ cur.kind = "Quant"
    /\ pc # "q_index_type" /\ "index_type" \in DOMAIN loc

(* C11: in a Quant run past the resolution step, with use-piscem set the
   index type is Piscem of the index directory whatever simpleaf_index.json
   records; with no index directory it is NoIndex and no mapping process is
   ever spawned. *)
C11_FlagWinsAndNoIndex ==
    PastIndexType =>
        /\ cur.use_piscem => loc.index_type = Piscem(cur.index) /\ cur.index # NoPath
        /\ cur.index = NoPath =>
              /\ loc.index_type = NoIndex
              /\ \A i \in Events : ~(IsSpawn(i) /\ trace[i].s = "map")

\* the flag is set, the metadata says salmon, and piscem has been started
C11_Witness ==
    /\ PastIndexType /\ cur.use_piscem
    /\ Join(cur.index, "simpleaf_index.json") \in DOMAIN json
    /\ json[Join(cur.index, "simpleaf_index.json")].index_type = "salmon"
    /\ loc.index_type = Piscem(cur.index)
    /\ \E i \in Events : IsSpawn(i) /\ trace[i].s = "map" /\ trace[i].a[1] = "piscem"

\* <index>/simpleaf_index.json of the current command
CurMeta == Join(cur.index, "simpleaf_index.json")

\* the transcript-to-gene map the current Quant command should end up with
ExpectedT2g ==
    IF cur.t2g_map # NoPath THEN cur.t2g_map
    ELSE IF cur.index # NoPath /\ CurMeta \in files /\ json[CurMeta].t2g_file # NoPath
    THEN Join(cur.index, json[CurMeta].t2g_file)
    ELSE NoPath

(* C12: in a Quant run whose registry and index metadata could be read, the
   transcript-to-gene map is the one given on the command line if any, else
   the recorded t2g_file joined to the index directory; with neither, the run
   ends with the missing-map error and has spawned nothing.  The map resolved
   is the one handed to the quant stage. *)
C12_T2gResolution ==
    /\ entry.fn = "map_and_quant" /\ cur.kind = "Quant" /\ pc # "q_start"
    /\ rp.present /\ (cur.index # NoPath /\ CurMeta \in files => CurMeta \in DOMAIN json)
    => IF ExpectedT2g = NoPath
       THEN /\ pc = "done" /\ result = Err("no t2g")
            /\ \A i \in Events : ~IsSpawn(i) /\ trace[i].e # "mkdir"
       ELSE /\ "t2g_map_file" \in DOMAIN loc => loc.t2g_map_file = ExpectedT2g
            /\ "t2g_map_file" \notin DOMAIN loc => pc = "done" /\ result = Err("missing input")
            /\ \A i \in Events : IsSpawn(i) /\ trace[i].s = "quant" => trace[i].a[10] = ExpectedT2g

\* no map on the command line, one recorded in the metadata, handed to quant
C12_Witness ==
    /\ entry.fn = "map_and_quant" /\ cur.kind = "Quant"
    /\ cur.t2g_map = NoPath /\ cur.index # NoPath
    /\ \E i \in Events :
          /\ IsSpawn(i) /\ trace[i].s = "quant"
          /\ trace[i].a[10] = Join(cur.index, "t2g_3col.tsv")

\* a Quant run called directly that is past the chemistry resolution step
PastChemistry ==
    /\ PastIndexType /\ pc # "q_chem"
    /\ ~(pc = "done" /\ result.at \in {"unknown index type", "no mapper"})

\* the custom chemistry file is there but cannot be read as a JSON mapping
CustomChemUnreadable == CustomChemPath \in files /\ CustomChemPath \notin DOMAIN json

\* the chemistry a name stands for when the custom file, if any, can be read
ExpectedChemistry(name) ==
    IF name = "10xv2" THEN TenxV2
    ELSE IF name = "10xv3" THEN TenxV3
    ELSE IF CustomChemPath \in files /\ name \in DOMAIN json[CustomChemPath]
    THEN Other(json[CustomChemPath][name])
    ELSE Other(name)

(* C13 as stated: chemistry resolution never fails, whatever the name and
   whatever the state of the custom chemistry file (absent, without the name,
   with the name, unreadable): past the step a Chemistry value is resolved. *)
C13_ChemistryNeverFails ==
    PastChemistry =>
        /\ result # Err("read custom_chemistries.json")
        /\ loc.chem.t \in {"TenxV2", "TenxV3", "Other"} /\ loc.chem.s # ""

(* C13 amended: chemistry resolution fails exactly when the name is neither
   10xv2 nor 10xv3 and the custom chemistry file exists but cannot be read;
   in every other case it yields a Chemistry value, a name the file does not
   map becoming Other(name). *)
C13_ChemistryFailsOnlyOnUnreadableFile ==
    PastChemistry =>
        IF cur.chemistry \notin {"10xv2", "10xv3"} /\ CustomChemUnreadable
        THEN pc = "done" /\ result = Err("read custom_chemistries.json")
        ELSE loc.chem = ExpectedChemistry(cur.chemistry)

\* a custom name, an unreadable file, and the run has ended on it
C13_Witness ==
    /\ PastChemistry
    /\ cur.chemistry = "mychem" /\ CustomChemUnreadable
    /\ result = Err("read custom_chemistries.json")

(* C14: for a chemistry name other than 10xv2 and 10xv3, with no custom
   chemistry file the resolved value is Other(name), the name unchanged, and
   resolving the name, or the resolved value's own string, again gives that
   same value; with a custom chemistry file that maps the name the resolved
   value is Other of the geometry string it maps to. *)
C14_OtherChemistry ==
    PastChemistry /\ cur.chemistry \notin {"10xv2", "10xv3"} =>
        /\ CustomChemPath \notin files =>
              /\ loc.chem = Other(cur.chemistry)
              /\ ChemStr(loc.chem) = cur.chemistry
              /\ ResolveChemistry(files, json, cur.chemistry) = loc.chem
              /\ ResolveChemistry(files, json, ChemStr(loc.chem)) = loc.chem
        /\ (CustomChemPath \in DOMAIN json /\ CustomChemPath \in files
            /\ cur.chemistry \in DOMAIN json[CustomChemPath]) =>
              loc.chem = Other(json[CustomChemPath][cur.chemistry])

\* the file maps the name and the geometry has been substituted
C14_Witness ==
    /\ PastChemistry /\ cur.chemistry = "mychem"
    /\ CustomChemPath \in files /\ loc.chem = Other(Geometry)
    /\ \E i \in Events : IsSpawn(i) /\ trace[i].s = "gpl"

(* C15: the orientation handed to generate-permit-list (its -d argument) is
   the one given on the command line if any; otherwise it is fw when the
   chemistry is TenxV2 or TenxV3 and both for every other chemistry. *)
C15_Orientation ==
    \A i \in Events :
        IsSpawn(i) /\ trace[i].s = "gpl" /\ trace[i].fn = "q_start" =>
            /\ trace[i].a[5] = "-d"
            /\ trace[i].a[6] = loc.ori
            /\ cur.expected_ori # "" => trace[i].a[6] = cur.expected_ori
            /\ cur.expected_ori = "" /\ loc.chem.t \in {"TenxV2", "TenxV3"} => trace[i].a[6] = "fw"
            /\ cur.expected_ori = "" /\ loc.chem.t = "Other" => trace[i].a[6] = "both"

\* no orientation given, a custom chemistry, and the permit-list stage started
C15_Witness ==
    /\ cur.kind = "Quant" /\ cur.expected_ori = "" /\ cur.chemistry = "mychem"
    /\ \E i \in Events : IsSpawn(i) /\ trace[i].s = "gpl" /\ trace[i].a[6] = "both"

\* a Quant run called directly that is past the filter resolution step
PastFilter ==
    /\ PastChemistry /\ pc # "q_filter"
    /\ result # Err("read custom_chemistries.json")

\* the kinds of CellFilterMethod whose option is set on a Quant command
ConfiguredKinds(c) ==
    {k \in {"UnfilteredExternalList", "ExplicitList", "ForceCells", "ExpectCells", "KneeFinding"} :
        CASE k = "UnfilteredExternalList" -> c.unfiltered_pl.given
          [] k = "ExplicitList" -> c.explicit_pl # NoPath
          [] k = "ForceCells" -> c.forced_cells # NoneU
          [] k = "ExpectCells" -> c.expect_cells # NoneU
          [] OTHER -> c.knee}

\* the errors of the unfiltered-list branch
UnfilteredErrors == {"not a regular file", "unregistered chemistry", "get_permit_if_absent"}

\* the unfiltered list named by the command cannot be had: the path is no
\* file, or no path is given and the chemistry has no canonical list
UnfilteredUnresolvable ==
    \/ cur.unfiltered_pl.path # NoPath /\ cur.unfiltered_pl.path \notin files
    \/ cur.unfiltered_pl.path = NoPath /\ PermitListFile(loc.chem) = NoPath

\* a Quant command with every filter option taken off
WithoutFilters(c) ==
    [c EXCEPT !.knee = FALSE, !.unfiltered_pl = NoUnfiltered, !.forced_cells = NoneU,
              !.expect_cells = NoneU, !.explicit_pl = NoPath]

(* C16 as stated: with at least one filter option set, filter resolution
   yields exactly one CellFilterMethod. *)
C16_OneFilterWheneverConfigured ==
    PastFilter /\ ConfiguredKinds(cur) # {} =>
        loc.filter_meth.t \in ConfiguredKinds(cur)

(* C16 amended: with at least one filter option set, filter resolution yields
   exactly one CellFilterMethod, of an option that is set, unless the
   unfiltered flag is set and its list cannot be resolved, in which case it
   fails with that error; with no filter option set, resolution fails. *)
C16_OneFilterOrUnfilteredError ==
    PastFilter =>
        /\ ConfiguredKinds(cur) # {}
        /\ IF cur.unfiltered_pl.given /\ UnfilteredUnresolvable
           THEN /\ pc = "done" /\ result.k = "err" /\ result.at \in UnfilteredErrors
                /\ loc.filter_meth = NoFilter
           ELSE \/ loc.filter_meth.t \in ConfiguredKinds(cur)
                \/ /\ cur.unfiltered_pl.given /\ cur.unfiltered_pl.path = NoPath
                   /\ pc = "done" /\ result = Err("get_permit_if_absent")
        /\ \A fetched \in BOOLEAN :
              ResolveFilter(files, WithoutFilters(cur), loc.chem, fetched) = FilterError("no filter")

\* the unfiltered flag with a path that is no file: resolution has failed
C16_Witness ==
    /\ PastFilter /\ cur.unfiltered_pl.given /\ cur.unfiltered_pl.path = "gone.txt"
    /\ result = Err("not a regular file")

\* the place of a kind of filter in the order the options are listed in
FilterRank(k) ==
    CASE k = "UnfilteredExternalList" -> 1
      [] k = "ExplicitList" -> 2
      [] k = "ForceCells" -> 3
      [] k = "ExpectCells" -> 4
      [] OTHER -> 5

FirstConfigured(c) ==
    CHOOSE k \in ConfiguredKinds(c) : \A o \in ConfiguredKinds(c) : FilterRank(k) <= FilterRank(o)

LastConfigured(c) ==
    CHOOSE k \in ConfiguredKinds(c) : \A o \in ConfiguredKinds(c) : FilterRank(k) >= FilterRank(o)

\* filter resolution has yielded a method for a command with several options set
SeveralFiltersResolved ==
    PastFilter /\ Cardinality(ConfiguredKinds(cur)) > 1 /\ loc.filter_meth # NoFilter

(* C17: when more than one filter option is set and resolution yields a
   method, it is the method of the first configured option in the order
   unfiltered list, explicit list, force-cells, expect-cells, knee. *)
C17_FirstConfiguredFilterWins ==
    SeveralFiltersResolved => loc.filter_meth.t = FirstConfigured(cur)

(* C18 as stated: when several filter options are set, the ambiguity is not
   rejected, and the method resolution yields is that of the last configured
   option in the order unfiltered list, explicit list, force-cells,
   expect-cells, knee. *)
C18_LastConfiguredFilterWins ==
    /\ PastFilter /\ Cardinality(ConfiguredKinds(cur)) > 1 => result # Err("no filter")
    /\ SeveralFiltersResolved => loc.filter_meth.t = LastConfigured(cur)

\* the method of a kind, with the value the command gives for it
MethodOf(c, k) ==
    CASE k = "ExplicitList" -> ExplicitList(c.explicit_pl)
      [] k = "ForceCells" -> ForceCells(c.forced_cells)
      [] k = "ExpectCells" -> ExpectCells(c.expect_cells)
      [] OTHER -> KneeFinding

(* C18 amended: when several filter options are set, the ambiguity is not
   rejected.  Without the unfiltered flag the method is that of the last
   configured option in the order explicit list, force-cells, expect-cells,
   knee.  With the unfiltered flag the explicit list is never looked at: the
   outcome is the unfiltered list, or the error of resolving it. *)
C18_LastEvaluatedFilterWins ==
    PastFilter /\ Cardinality(ConfiguredKinds(cur)) > 1 =>
        IF cur.unfiltered_pl.given
        THEN \/ loc.filter_meth.t = "UnfilteredExternalList"
             \/ loc.filter_meth = NoFilter /\ result.k = "err" /\ result.at \in UnfilteredErrors
        ELSE loc.filter_meth = MethodOf(cur, LastConfigured(cur))

\* an explicit list and force-cells: the permit-list stage runs with --force-cells
C18_Witness ==
    /\ PastFilter /\ cur.explicit_pl # NoPath /\ cur.forced_cells # NoneU
    /\ loc.filter_meth = ForceCells(cur.forced_cells)
    /\ \E i \in Events : IsSpawn(i) /\ trace[i].s = "gpl" /\ trace[i].a[7] = "--force-cells"

\* filter resolution has ended the run with the error `at`
FilterFailed(at) == pc = "done" /\ result = Err(at) /\ loc.filter_meth = NoFilter

(* C19 as stated: with the unfiltered flag and a path, the method is
   UnfilteredExternalList(path, min_reads) if the path is a file and an error
   otherwise; with the flag and no path, it is UnfilteredExternalList(the
   canonical list of the chemistry, min_reads) if the chemistry has a
   canonical list and an error otherwise. *)
C19_UnfilteredList ==
    PastFilter /\ cur.unfiltered_pl.given =>
        IF cur.unfiltered_pl.path # NoPath
        THEN IF cur.unfiltered_pl.path \in files
             THEN loc.filter_meth = UnfilteredExternalList(cur.unfiltered_pl.path, cur.min_reads)
             ELSE FilterFailed("not a regular file")
        ELSE IF loc.chem.t \in {"TenxV2", "TenxV3"}
             THEN loc.filter_meth = UnfilteredExternalList(PermitListFile(loc.chem), cur.min_reads)
             ELSE FilterFailed("unregistered chemistry")

(* C19 amended: as stated, except that with the flag, no path and a chemistry
   that has a canonical list, resolution also fails when that list can
   neither be found nor fetched. *)
C19_UnfilteredListOrFetchError ==
    PastFilter /\ cur.unfiltered_pl.given =>
        IF cur.unfiltered_pl.path # NoPath
        THEN IF cur.unfiltered_pl.path \in files
             THEN loc.filter_meth = UnfilteredExternalList(cur.unfiltered_pl.path, cur.min_reads)
             ELSE FilterFailed("not a regular file")
        ELSE IF loc.chem.t \in {"TenxV2", "TenxV3"}
             THEN \/ /\ loc.filter_meth = UnfilteredExternalList(PermitListFile(loc.chem), cur.min_reads)
                     /\ PermitListFile(loc.chem) \in files
                  \/ FilterFailed("get_permit_if_absent")
             ELSE FilterFailed("unregistered chemistry")

\* the flag without a path on 10xv3: the canonical list is handed to the
\* permit-list stage with the minimum read count
C19_Witness ==
    /\ PastFilter /\ cur.unfiltered_pl.given /\ cur.unfiltered_pl.path = NoPath
    /\ loc.chem = TenxV3
    /\ \E i \in Events :
          /\ IsSpawn(i) /\ trace[i].s = "gpl"
          /\ SubSeq(trace[i].a, 7, 10)
               = <<"-u", PermitListFile(TenxV3), "--min-reads", ToString(cur.min_reads)>>

\* the argument that follows `flag` in an argv that holds it
ArgAfter(a, flag) == a[(CHOOSE k \in 1..(Len(a) - 1) : a[k] = flag) + 1]

HasArg(a, flag) == \E k \in 1..(Len(a) - 1) : a[k] = flag

\* the option by which a stage is told its thread count
ThreadsFlag(stage) == IF stage \in {"collate", "quant"} THEN "-t" ELSE "--threads"

\* the count the clamp is to give for a request t on a host of parallelism h
\* (h = 0: the parallelism cannot be determined)
ClampedTo(t, h) == IF h = 0 THEN t ELSE IF t > h THEN h ELSE t

\* the events of the command now running or last run
OfThisCommand ==
    {i \in Events : trace[i].f = org.f /\ trace[i].r = org.r /\ trace[i].key = org.key}

(* C20: in Index and in Quant the thread count handed to the indexing,
   mapping, collate and quant processes is the host parallelism when the
   request exceeds it and the request otherwise, the request being kept when
   the parallelism cannot be determined; a Quant run whose filter is resolved
   goes on with that count, whatever the request and the host. *)
C20_ThreadClamp ==
    /\ \A i \in OfThisCommand :
          IsSpawn(i) /\ trace[i].s \in {"index", "map", "collate", "quant"} =>
              /\ HasArg(trace[i].a, ThreadsFlag(trace[i].s))
              /\ ArgAfter(trace[i].a, ThreadsFlag(trace[i].s))
                   = ToString(ClampedTo(cur.threads, hostpar))
    /\ PastFilter /\ loc.filter_meth # NoFilter =>
          loc.threads = ClampedTo(cur.threads, hostpar)

\* an indexer started with the host's count instead of the larger request
C20_IndexClamped ==
    /\ cur.kind = "Index" /\ hostpar > 0 /\ cur.threads > hostpar
    /\ \E i \in OfThisCommand :
          /\ IsSpawn(i) /\ trace[i].s = "index"
          /\ ArgAfter(trace[i].a, "--threads") = ToString(hostpar)

\* a Quant run on a host of known parallelism, asked for more threads than
\* that: the mapper and the quant stage have been given the host's count
C20_Witness ==
    /\ cur.kind = "Quant" /\ hostpar > 0 /\ cur.threads > hostpar
    /\ loc.threads = hostpar
    /\ \E i, j \in OfThisCommand :
          /\ IsSpawn(i) /\ trace[i].s = "map"
          /\ ArgAfter(trace[i].a, "--threads") = ToString(hostpar)
          /\ IsSpawn(j) /\ trace[j].s = "quant"
          /\ ArgAfter(trace[j].a, "-t") = ToString(hostpar)

\* the processes the command now running or last run has spawned
SpawnsOfThisCommand == {i \in OfThisCommand : IsSpawn(i)}

\* a Quant command on a directory mapped beforehand: no index, no reads
OnMappedDir(c) ==
    /\ c.kind = "Quant" /\ c.index = NoPath /\ c.map_dir # NoPath
    /\ c.reads1 = <<>> /\ c.reads2 = <<>>

(* C21: a Quant command given a directory mapped beforehand, no index and no
   reads, spawns no mapping process; the first process it spawns is
   generate-permit-list, reading the directory that was given. *)
C21_MappedDirSkipsMapping ==
    OnMappedDir(cur) =>
        \A i \in SpawnsOfThisCommand :
            /\ trace[i].s # "map"
            /\ (\A j \in SpawnsOfThisCommand : i <= j) =>
                  /\ trace[i].s = "gpl"
                  /\ ArgAfter(trace[i].a, "-i") = cur.map_dir

\* the permit-list stage has been started on the given directory, the filter
\* being resolved, and collate after it
C21_Witness ==
    /\ OnMappedDir(cur) /\ "filter_meth" \in DOMAIN loc /\ loc.filter_meth # NoFilter
    /\ \E i, j \in SpawnsOfThisCommand :
          /\ i < j
          /\ trace[i].s = "gpl" /\ ArgAfter(trace[i].a, "-i") = cur.map_dir
          /\ trace[j].s = "collate"

\* the command now running or last run has entered its function
Started == \E i \in OfThisCommand : IsStart(i)

\* an Index command that is to build its reference from a FASTA and a GTF
FromFastaAndGtf(c) == c.kind = "Index" /\ c.fasta # NoPath /\ c.gtf # NoPath

\* nothing has been run for the command: no process, no mkdir, no file written
NothingRun == \A i \in OfThisCommand : trace[i].e \in {"start", "return"}

(* C22: an Index command with a FASTA and a GTF ends with an error, no process
   having been spawned, when the reference type is spliced+intronic and no
   read length is given, and when it is spliced+unspliced and the registered
   pyroe is older than the version required; the error is that of the option
   or of the version whenever the registry itself can be read. *)
C22_IndexConfigurationErrors ==
    Started /\ FromFastaAndGtf(cur) =>
        /\ cur.ref_type = "SplicedIntronic" /\ cur.rlen = NoneU =>
              /\ pc = "done" /\ NothingRun
              /\ result = Err(IF rp.present THEN "no rlen" ELSE "inspect_af_home")
        /\ cur.ref_type = "SplicedUnspliced" /\ rp.pyroe = "old" =>
              /\ pc = "done" /\ NothingRun
              /\ result = Err("pyroe version")

\* spliced+intronic without a read length, with every tool registered
C22_Witness ==
    /\ Started /\ FromFastaAndGtf(cur)
    /\ cur.ref_type = "SplicedIntronic" /\ cur.rlen = NoneU
    /\ rp.present /\ rp.pyroe = "ok" /\ rp.salmon /\ rp.piscem
    /\ {"g.fa", "g.gtf"} \subseteq files
    /\ result = Err("no rlen")

\* spliced+unspliced with a pyroe that is too old
C22_OldPyroe ==
    /\ Started /\ FromFastaAndGtf(cur)
    /\ cur.ref_type = "SplicedUnspliced" /\ rp.pyroe = "old"
    /\ result = Err("pyroe version")

\* the paths a Quant stage declares as its inputs, as the run knows them just
\* before the stage is started
StageInputs(stage) ==
    IF stage = "map"
    THEN (IF loc.index_type.t = "Piscem"
          THEN Range(PiscemMapInputs(cur, loc.index_type.p))
          ELSE Range(SalmonMapInputs(cur)))
    ELSE IF stage = "gpl" THEN {loc.map_output}
    ELSE IF stage = "collate" THEN {GplOutput(cur), loc.map_output}
    ELSE {GplOutput(cur), loc.t2g_map_file}

\* where the run stands just before it starts a stage
StagePc(stage) == "q_" \o stage

QuantStages == {"map", "gpl", "collate", "quant"}

(* C23: a step that spawns the process of a Quant stage starts from a state
   in which all the declared inputs of the stage exist (map: the index files
   and the reads; generate-permit-list: the map output; collate: the
   permit-list output and the map output; quant: the permit-list output and
   the t2g file); from a state in which one is missing, the step that would
   start the stage ends the run unsuccessfully with no process running. *)
C23_InputsExistAtSpawn ==
    [][\A st \in QuantStages :
          /\ proc # st /\ proc' = st => StageInputs(st) \subseteq files
          /\ (/\ pc = StagePc(st) /\ pc' # pc
              /\ st = "map" => cur.index # NoPath /\ loc.index_type.t # "NoIndex"
              /\ ~(StageInputs(st) \subseteq files))
                => /\ pc' = "done" /\ proc' = "none" /\ result'.k \in {"err", "panic"}
                   /\ Len(trace') = Len(trace) + 1
                   /\ trace'[Len(trace')].e \in {"return", "panic"}]_vars

\* the permit-list stage has succeeded without leaving its output directory:
\* the run has ended on the missing input and collate was never started
C23_Witness ==
    /\ cur.kind = "Quant" /\ result = Err("missing input")
    /\ GplOutput(cur) \notin files
    /\ \E i \in SpawnsOfThisCommand : trace[i].s = "gpl"
    /\ \E i \in OfThisCommand : IsStageExit(i) /\ trace[i].s = "gpl" /\ trace[i].a = <<"0">>
    /\ \A i \in SpawnsOfThisCommand : trace[i].s \notin {"collate", "quant"}

\* the quant stage started with its inputs in place
C23_QuantStarted ==
    /\ cur.kind = "Quant" /\ proc = "quant"
    /\ {GplOutput(cur), loc.t2g_map_file} \subseteq files

\* the place of a stage in its command
StageRank(stage) ==
    CASE stage = "pyroe" -> 1 [] stage = "index" -> 2
      [] stage = "map" -> 1 [] stage = "gpl" -> 2 [] stage = "collate" -> 3 [] stage = "quant" -> 4

\* the stage that a stage of Quant comes right after ("" for none)
StageBefore(c, stage) ==
    CASE stage = "quant" -> "collate"
      [] stage = "collate" -> "gpl"
      [] stage = "gpl" -> IF c.index # NoPath THEN "map" ELSE ""
      [] OTHER -> ""

\* the process spawned at event i has exited by event k
ExitedBy(i, k) == \E x \in (i + 1)..k : IsStageExit(x) /\ trace[x].s = trace[i].s

(* C24: within a command a process is spawned only when every process spawned
   before it has exited, so that at most one is running; the process waited
   for is the last one spawned; and the stages of Quant are started in the
   order map (if there is an index to map against), generate-permit-list,
   collate, quant, each after the one before it has exited successfully. *)
C24_OneProcessInStageOrder ==
    /\ \A i, j \in Events :
          IsSpawn(i) /\ IsSpawn(j) /\ i < j => ExitedBy(i, j)
    /\ \A i, j \in SpawnsOfThisCommand :
          i < j => StageRank(trace[i].s) < StageRank(trace[j].s)
    /\ proc # "none" =>
          \E i \in SpawnsOfThisCommand :
              /\ trace[i].s = proc /\ ~ExitedBy(i, Len(trace))
              /\ \A j \in SpawnsOfThisCommand : j <= i
    /\ \A j \in SpawnsOfThisCommand :
          cur.kind = "Quant" /\ StageBefore(cur, trace[j].s) # "" =>
              \E x \in OfThisCommand :
                  /\ x < j /\ IsStageExit(x) /\ trace[x].a = <<"0">>
                  /\ trace[x].s = StageBefore(cur, trace[j].s)

\* a Quant run with an index and reads has started its four stages
C24_Witness ==
    /\ cur.kind = "Quant" /\ cur.index # NoPath /\ proc = "quant"
    /\ \E a, b, c, d \in SpawnsOfThisCommand :
          /\ a < b /\ b < c /\ c < d
          /\ <<trace[a].s, trace[b].s, trace[c].s, trace[d].s>> = <<"map", "gpl", "collate", "quant">>

(* C25: within one Index or Quant command no stage is spawned twice, whether
   its process exited with success or with failure; a stage that has failed
   is followed by no spawn at all. *)
C25_NoStageRetried ==
    /\ \A i, j \in Events :
          /\ IsSpawn(i) /\ IsSpawn(j) /\ i # j
          /\ <<trace[i].f, trace[i].r, trace[i].key>> = <<trace[j].f, trace[j].r, trace[j].key>>
          => trace[i].s # trace[j].s
    /\ \A x \in Events :
          IsFailedExit(x) =>
              Cardinality({i \in Events : IsSpawn(i) /\ trace[i].s = trace[x].s
                                          /\ trace[i].key = trace[x].key
                                          /\ trace[i].f = trace[x].f /\ trace[i].r = trace[x].r}) = 1

\* collate has failed after a successful permit-list stage and the run is over
C25_Witness ==
    /\ pc = "done" /\ result = Err("collate failed")
    /\ \E x \in OfThisCommand : IsFailedExit(x) /\ trace[x].s = "collate"
    /\ Cardinality({i \in SpawnsOfThisCommand : trace[i].s = "collate"}) = 1

\* the events a step adds to the trace
NewEvents == (Len(trace) + 1)..Len(trace')

\* a step that ends a command, or the whole run, in failure
FailingStep ==
    /\ Len(trace') > Len(trace)
    /\ \/ trace'[Len(trace')].e = "panic"
       \/ trace'[Len(trace')].e = "return" /\ trace'[Len(trace')].s = "err"

(* C26: nothing is deleted or rolled back.  No step removes a path, and the
   content of a file changes only by a step that writes that very file; a
   step on which a command fails therefore leaves every path there was in
   place, and changes none of the files an earlier stage of the command has
   written. *)
C26_NothingRolledBack ==
    [][/\ files \subseteq files'
       /\ DOMAIN json \subseteq DOMAIN json'
       /\ \A p \in DOMAIN json :
             json'[p] # json[p] => \E i \in NewEvents : trace'[i].e = "write" /\ trace'[i].s = p
       /\ FailingStep =>
             \A i \in OfThisCommand :
                 trace[i].e \in {"write", "mkdir", "copy"} =>
                     /\ trace[i].s \in files'
                     /\ trace[i].e = "write" => json'[trace[i].s] = json[trace[i].s]]_vars

\* an Index command has failed on writing simpleaf_index.json: the reference
\* that pyroe built, the index and index_info.json are all still there
C26_Witness ==
    /\ cur.kind = "Index" /\ result = Err("write simpleaf_index.json")
    /\ \E i \in OfThisCommand : IsStageExit(i) /\ trace[i].s = "pyroe" /\ trace[i].a = <<"0">>
    /\ {Join(cur.output, "index"), Join(cur.output, "index_info.json"),
        loc.reference_sequence, loc.splici_t2g} \subseteq files

\* the option by which an indexer is given its reference
RefFlag(argv) == IF argv[1] = "piscem" THEN "-s" ELSE "-t"

\* the provenance record the Index command now running or last run has written
IndexLogWritten(c) ==
    \E i \in OfThisCommand :
        trace[i].e = "write" /\ trace[i].s = Join(c.output, "simpleaf_index_log.json")

(* C27: in an Index command pyroe is spawned only when a FASTA and a GTF are
   given, and then the indexer is never started without pyroe having been
   spawned before it; with a reference sequence given directly the first
   process spawned is the indexer, on that very file, and the provenance
   record written has an entry for the indexer only. *)
C27_PyroeOnlyForFastaAndGtf ==
    cur.kind = "Index" =>
        /\ \A i \in SpawnsOfThisCommand :
              /\ trace[i].s = "pyroe" => IsBuildingRef(cur)
              /\ trace[i].s = "index" /\ IsBuildingRef(cur) =>
                    \E j \in SpawnsOfThisCommand : j < i /\ trace[j].s = "pyroe"
        /\ ~IsBuildingRef(cur) =>
              /\ \A i \in SpawnsOfThisCommand :
                    (\A j \in SpawnsOfThisCommand : i <= j) =>
                        /\ trace[i].s = "index"
                        /\ ArgAfter(trace[i].a, RefFlag(trace[i].a)) = cur.ref_seq
              /\ IndexLogWritten(cur) =>
                    LET log == json[Join(cur.output, "simpleaf_index_log.json")]
                    IN  /\ DOMAIN log.cmd_info = {"index_cmd"}
                        /\ DOMAIN log.time_info = {"index_time"}

\* a successful Index on a reference sequence given directly
C27_Witness ==
    /\ cur.kind = "Index" /\ ~IsBuildingRef(cur) /\ cur.ref_seq # NoPath
    /\ IndexLogWritten(cur)
    /\ \E i \in SpawnsOfThisCommand : trace[i].s = "index"

\* a successful Index that built its reference with pyroe
C27_WithPyroe ==
    /\ cur.kind = "Index" /\ IsBuildingRef(cur) /\ IndexLogWritten(cur)
    /\ \E i, j \in SpawnsOfThisCommand : i < j /\ trace[i].s = "pyroe" /\ trace[j].s = "index"
    /\ DOMAIN json[Join(cur.output, "simpleaf_index_log.json")].cmd_info = {"pyroe_cmd", "index_cmd"}

\* a Quant command on the index of output directory O: no use-piscem flag, no
\* t2g map
QuantOnIndexOf(O) ==
    [QuantDefaults EXCEPT !.index = Join(O, "index"), !.chemistry = "10xv2",
                          !.output = "outq", !.knee = TRUE, !.resolution = "cr-like",
                          !.reads1 = <<"r1.fq">>, !.reads2 = <<"r2.fq">>]

\* map_and_quant run on command q, from its entry to the resolved index type,
\* on the files there are now
ResolvedBy(q) ==
    LET s1 == QStartOutcome([S EXCEPT !.cur = q, !.pc = "q_start"])
    IN  IF s1.pc = "q_index_type" THEN QIndexTypeOutcome(s1) ELSE s1

\* the place the indexer of the command was told to write its index to
IndexWrittenTo ==
    LET i == CHOOSE i \in SpawnsOfThisCommand : trace[i].s = "index"
    IN  ArgAfter(trace[i].a, IF trace[i].a[1] = "piscem" THEN "-o" ELSE "-i")

(* C28: once an Index command with a FASTA and a GTF has succeeded in output
   directory O, with salmon or with piscem, a Quant command given O/index
   with neither the use-piscem flag nor a t2g map gets through its resolution
   steps with the type of the indexer that was run, the location that indexer
   was told to write (O/index for salmon, O/index/piscem_idx for piscem) and
   the t2g file O/index/t2g_3col.tsv, which is there. *)
C28_QuantSelfConfigures ==
    cur.kind = "Index" /\ IsBuildingRef(cur) /\ IndexLogWritten(cur) =>
        LET O == cur.output
            r == ResolvedBy(QuantOnIndexOf(O))
        IN  /\ r.pc = "q_chem"
            /\ r.loc.index_type = IF cur.use_piscem
                                  THEN Piscem(Join(Join(O, "index"), "piscem_idx"))
                                  ELSE Salmon(Join(O, "index"))
            /\ r.loc.index_type.p = IndexWrittenTo
            /\ r.loc.t2g_map_file = Join(Join(O, "index"), "t2g_3col.tsv")
            /\ r.loc.t2g_map_file \in files

\* a successful Index with piscem on a FASTA and a GTF
C28_Witness ==
    /\ cur.kind = "Index" /\ IsBuildingRef(cur) /\ IndexLogWritten(cur) /\ cur.use_piscem
    /\ ResolvedBy(QuantOnIndexOf(cur.output)).loc.index_type.t = "Piscem"
    /\ json[Join(Join(cur.output, "index"), "simpleaf_index.json")].t2g_file = "t2g_3col.tsv"

\* the same with salmon
C28_WithSalmon ==
    /\ cur.kind = "Index" /\ IsBuildingRef(cur) /\ IndexLogWritten(cur) /\ ~cur.use_piscem
    /\ ResolvedBy(QuantOnIndexOf(cur.output)).loc.index_type.t = "Salmon"

MetaName == "simpleaf_index.json"

\* p is the index metadata file of some index directory
IsIndexMeta(p) ==
    Len(p) > Len(MetaName) /\ SubSeq(p, Len(p) - Len(MetaName), Len(p)) = "/" \o MetaName

\* event i writes an index metadata file
IsMetaWrite(i) == trace[i].e = "write" /\ IsIndexMeta(trace[i].s)

\* the events of the command that event i belongs to
SameCommandAs(i) ==
    {j \in Events : <<trace[j].f, trace[j].r, trace[j].key>> = <<trace[i].f, trace[i].r, trace[i].key>>}

(* C29: simpleaf_index.json is written at most once by a command, by an Index
   command only, into its own index directory and after its indexer has
   exited with status 0; while a Quant command is the one running, no index
   metadata file appears or changes. *)
C29_IndexMetadataWrittenOnce ==
    /\ [](\A i \in Events :
            IsMetaWrite(i) =>
                /\ \A j \in SameCommandAs(i) : IsMetaWrite(j) => j = i
                /\ \E s \in SameCommandAs(i) : s < i /\ IsStart(s) /\ trace[s].s = "Index"
                /\ \E x \in SameCommandAs(i) :
                      x < i /\ IsStageExit(x) /\ trace[x].s = "index" /\ trace[x].a = <<"0">>
                /\ i \in OfThisCommand =>
                      trace[i].s = Join(Join(cur.output, "index"), MetaName))
    /\ [][cur.kind = "Quant" /\ cur' = cur =>
             /\ {p \in files' : IsIndexMeta(p)} = {p \in files : IsIndexMeta(p)}
             /\ \A p \in DOMAIN json' :
                   IsIndexMeta(p) => p \in DOMAIN json /\ json'[p] = json[p]]_vars

\* the indexer has succeeded and the metadata have just been written
C29_Witness ==
    /\ cur.kind = "Index" /\ pc = "idx_log"
    /\ Cardinality({i \in OfThisCommand : IsMetaWrite(i)}) = 1
    /\ Join(Join(cur.output, "index"), MetaName) \in DOMAIN json

\* a Quant command that has read the metadata of its index and gone on to
\* its stages
C29_QuantHasRead ==
    /\ cur.kind = "Quant" /\ "had_simpleaf_index_json" \in DOMAIN loc
    /\ loc.had_simpleaf_index_json /\ proc = "gpl"

\* how a command says that the process of a stage could not be started
SpawnFailures ==
    {"could not execute pyroe", "failed to invoke piscem index command",
     "failed to invoke salmon index command", "failed to execute mapper",
     "could not execute gpl", "could not execute collate", "could not execute quant"}

\* the message with which event i ends a command
EndMessage(i) ==
    IF trace[i].e = "panic" THEN trace[i].s
    ELSE IF trace[i].e = "return" THEN trace[i].a[1]
    ELSE ""

(* C30: when the process of a stage cannot be started at all, the command
   ends as it does after a non-zero exit: with an error returned to its
   caller, which is the result of the run, and with no stage spawned
   afterwards. *)
C30_SpawnFailureIsAReturnedError ==
    \A i \in Events :
        EndMessage(i) \in SpawnFailures =>
            /\ IsErrReturn(i)
            /\ pc = "done" /\ result = Err(EndMessage(i)) /\ proc = "none"
            /\ \A j \in Events : j > i => ~IsSpawn(j)

\* the command the user asked for, as the parser reads the words typed
UserCommand == ParseCli(entry.args)

\* the stages of the user's command have all completed: its provenance
\* record, or for run-workflow the running of its workflow files, is there
UserCommandCompleted ==
    CASE UserCommand.kind = "Index" ->
            \E i \in Events : trace[i].e = "write"
                              /\ trace[i].s = Join(UserCommand.output, "simpleaf_index_log.json")
      [] UserCommand.kind = "Quant" ->
            \E i \in Events : trace[i].e = "write"
                              /\ trace[i].s = Join(UserCommand.output, "simpleaf_quant_log.json")
      [] UserCommand.kind = "RunWorkflow" ->
            \E i \in Events : trace[i].e = "dispatch" /\ trace[i].a = UserCommand.jsons
      [] OTHER -> FALSE

(* C31: the program run from main executes the subcommand the user typed,
   with the user's options, and its exit status is 0 exactly when all stages
   of that command have completed. *)
C31_MainRunsTheUsersCommand ==
    entry.fn = "main" =>
        /\ \A i \in Events :
              trace[i].e = "dispatch" =>
                  /\ trace[i].s = UserCommand.kind
                  /\ UserCommand.kind = "RunWorkflow" => trace[i].a = UserCommand.jsons
        /\ pc = "done" => (ExitCode(result) = 0 <=> UserCommandCompleted)

\* the wait for the child process of each stage
WaitPcs ==
    {"idx_pyroe_wait", "idx_index_wait", "q_map_wait", "q_gpl_wait", "q_collate_wait",
     "q_quant_wait"}

(* C32: with every child process exiting in the end, every run comes to its
   end, with Ok or with a failure; and as long as a child process has not
   exited the command is waiting for it: the only step taken is the exit of
   that process, so no other stage is started and the command does not end. *)
C32_TerminatesAndWaits ==
    /\ <>(pc = "done")
    /\ [](proc # "none" => pc \in WaitPcs /\ result = Running)
    /\ [][proc # "none" =>
             /\ proc' = "none"
             /\ \E i \in NewEvents : trace'[i].e = "exit" /\ trace'[i].s = proc
             /\ \A i \in NewEvents : trace'[i].e # "spawn"]_vars

\* run-workflow has come to its end with Ok after replaying an index command
C32_Witness ==
    /\ entry.fn = "run_workflow" /\ pc = "done" /\ result = Ok
    /\ \E i \in Events : IsStageExit(i) /\ trace[i].s = "index" /\ trace[i].key = "index"

\* a command waiting for its collate process
C32_Waiting == proc = "collate" /\ pc = "q_collate_wait" /\ result = Running

\* the thread count given to the process spawned at event i
ThreadsGiven(i) == ArgAfter(trace[i].a, ThreadsFlag(trace[i].s))

\* the index metadata file of the Index command c
MetaOf(c) == Join(Join(c.output, "index"), MetaName)

(* C33: within a Quant command the mapper, collate and quant are given one
   and the same thread count, the requested one clamped to the host
   parallelism; within an Index command the count given to the indexer is the
   one recorded in the simpleaf_index.json it writes. *)
C33_OneThreadCount ==
    /\ cur.kind = "Quant" =>
          \A i, j \in SpawnsOfThisCommand :
              {trace[i].s, trace[j].s} \subseteq {"map", "collate", "quant"} =>
                  /\ ThreadsGiven(i) = ThreadsGiven(j)
                  /\ ThreadsGiven(i) = ToString(ClampedTo(cur.threads, hostpar))
    /\ cur.kind = "Index" =>
          \A i \in SpawnsOfThisCommand, w \in OfThisCommand :
              trace[i].s = "index" /\ IsMetaWrite(w) =>
                  /\ trace[w].s = MetaOf(cur)
                  /\ ToString(json[MetaOf(cur)].threads) = ThreadsGiven(i)

\* an Index command asked for more threads than the host has: the metadata
\* record the host's count, which the indexer was given
C33_Witness ==
    /\ cur.kind = "Index" /\ hostpar > 0 /\ cur.threads > hostpar
    /\ \E w \in OfThisCommand : IsMetaWrite(w)
    /\ json[MetaOf(cur)].threads = hostpar
    /\ \E i \in SpawnsOfThisCommand : trace[i].s = "index" /\ ThreadsGiven(i) = ToString(hostpar)

\* a Quant command with a mapping stage has started quant with the clamped count
C33_QuantClamped ==
    /\ cur.kind = "Quant" /\ hostpar > 0 /\ cur.threads > hostpar
    /\ \E i, j, k \in SpawnsOfThisCommand :
          <<trace[i].s, trace[j].s, trace[k].s>> = <<"map", "collate", "quant">>

(* C34: whenever Index spawns the piscem indexer, the minimizer length given
   with -m is smaller than the k-mer length given with -k. *)
C34_MinimizerBelowKmer ==
    \A i \in Events :
        IsSpawn(i) /\ trace[i].s = "index" /\ trace[i].a[1] = "piscem" =>
            ParseU32(ArgAfter(trace[i].a, "-m")) < ParseU32(ArgAfter(trace[i].a, "-k"))

\* the index type the running Quant command would resolve were its
\* use-piscem flag the other way round
IndexTypeWithFlagFlipped ==
    ResolveIndexType(cur.index, ~cur.use_piscem, loc.had_simpleaf_index_json, loc.index_type_str)

(* C35: on an index directory whose simpleaf_index.json says "piscem", a Quant
   command resolves the same piscem index, and so checks the same index
   files, with the use-piscem flag as without it. *)
C35_FlagAndMetadataAgree ==
    /\ PastIndexType /\ cur.index # NoPath
    /\ loc.had_simpleaf_index_json /\ loc.index_type_str = "piscem"
    => /\ loc.index_type = IndexTypeWithFlagFlipped
       /\ PiscemMapInputs(cur, loc.index_type.p) = PiscemMapInputs(cur, IndexTypeWithFlagFlipped.p)

\* the records of a workflow file that carry a command string
CmdRecords(w) ==
    {r \in (IF w.has_index THEN Range(w.index) ELSE {})
              \cup (IF w.has_quant THEN Range(w.quant) ELSE {}) : r.has_cmd}

\* some record of some workflow file given has a command string that the
\* parser rejects
SomeRecordUnparsable ==
    \E k \in 1..Len(Jsons) :
        /\ Jsons[k] \in DOMAIN json
        /\ \E r \in CmdRecords(json[Jsons[k]]) : ParseCmd(r.cmd).kind = "ParseError"

\* a run of workflow files, entered at run_workflow or through main
RunsWorkflow == entry.fn \in {"run_workflow", "main"}

(* C36: in run-workflow a replayed command starts only when the records of
   all the workflow files have been parsed and queued; so when the command
   string of any record does not parse, no command is ever started and no
   process spawned, not even for a valid index record met before it. *)
C36_ParseAllBeforeReplay ==
    RunsWorkflow =>
        /\ (\E i \in Events : IsStart(i)) =>
              /\ rw.fi = Len(Jsons) + 1
              /\ Len(rw.index_cmd_v) = Len(RecordsWithCmd(Jsons, json, "index", 1))
              /\ Len(rw.quant_cmd_v) = Len(RecordsWithCmd(Jsons, json, "quant", 1))
        /\ SomeRecordUnparsable =>
              \A i \in Events : ~IsStart(i) /\ ~IsSpawn(i) /\ trace[i].e \notin {"write", "mkdir"}

\* the parser has ended the process on the quant record of a file whose
\* index record is valid, and nothing has been run
C36_Witness ==
    /\ entry.fn = "run_workflow" /\ pc = "done" /\ result = [k |-> "exit", at |-> "clap"]
    /\ \E k \in 1..Len(Jsons) :
          /\ Jsons[k] \in DOMAIN json /\ json[Jsons[k]].has_index
          /\ \E r \in Range(json[Jsons[k]].index) :
                r.has_cmd /\ ParseCmd(r.cmd).kind = "Index"
    /\ \A i \in Events : ~IsStart(i)

\* an Index command given its reference sequences directly
FromRefSeq(c) == c.kind = "Index" /\ c.ref_seq # NoPath /\ ~IsBuildingRef(c)

(* C37: once an Index command given a reference-sequence file directly (no
   FASTA and GTF) has succeeded in output directory O, the metadata file
   O/index/simpleaf_index.json has a null t2g_file, and a Quant command on
   O/index that gives no t2g map ends with the error that no t2g map was
   given or could be inferred, with no process spawned for it. *)
C37_NoT2gFromRefSeq ==
    FromRefSeq(cur) /\ IndexLogWritten(cur) =>
        LET r == ResolvedBy(QuantOnIndexOf(cur.output))
        IN  /\ MetaOf(cur) \in DOMAIN json
            /\ json[MetaOf(cur)].t2g_file = NoPath
            /\ r.pc = "done" /\ r.result = Err("no t2g")
            /\ \A i \in (Len(trace) + 1)..Len(r.trace) : r.trace[i].e # "spawn"

\* a successful Index on a reference-sequence file, whose metadata file a
\* Quant command without a t2g map has read
C37_Witness ==
    /\ FromRefSeq(cur) /\ IndexLogWritten(cur) /\ pc = "done" /\ result.k = "ok"
    /\ MetaOf(cur) \in files
    /\ ReadIndexJson(files, json, QuantOnIndexOf(cur.output)).had
    /\ ResolvedBy(QuantOnIndexOf(cur.output)).result = Err("no t2g")

\* the registry file as it is: whether it is there, whether it can be read,
\* and what it holds
RegistryFile(fs, js) ==
    <<InfoPath \in fs, InfoPath \in DOMAIN js,
      IF InfoPath \in DOMAIN js THEN js[InfoPath].prog_info ELSE NoRegistry>>

\* a registry with alevin_fry, pyroe and a mapper in it
Complete(reg) == reg.alevin_fry /\ reg.pyroe # "absent" /\ (reg.salmon \/ reg.piscem)

RegistryWritten(tr) == \E i \in 1..Len(tr) : tr[i].e = "write" /\ tr[i].s = InfoPath

(* C38: set-paths writes the registry file exactly when it returns without
   error, and then the registry in the file has alevin_fry, pyroe and at
   least one of salmon and piscem; when it returns an error the registry
   file, if there was one, is as it was before. *)
C38_RegistryWrittenOnlyComplete ==
    [][entry.fn = "set_paths" =>
          /\ result'.k \in {"ok", "err"}
          /\ RegistryWritten(trace') <=> result'.k = "ok"
          /\ result'.k = "ok" =>
                /\ InfoPath \in files' /\ InfoPath \in DOMAIN json'
                /\ Complete(json'[InfoPath].prog_info)
          /\ result'.k = "err" => RegistryFile(files', json') = RegistryFile(files, json)]_vars

\* set-paths has replaced a registry without piscem by one with piscem
C38_Witness ==
    /\ entry.fn = "set_paths" /\ pc = "done" /\ result = Ok
    /\ ~rp.piscem /\ rp.present
    /\ RegistryWritten(trace)
    /\ json[InfoPath].prog_info.piscem /\ Complete(json[InfoPath].prog_info)

\* set-paths has failed for want of pyroe and the registry is the one that
\* was there
C38_ErrorKeepsRegistry ==
    /\ entry.fn = "set_paths" /\ pc = "done" /\ result = Err("no pyroe found")
    /\ rp.present /\ json[InfoPath].prog_info = rp

\* the custom chemistry mapping as the file holds it
Mapping(fs, js) ==
    IF CustomChemPath \in fs /\ CustomChemPath \in DOMAIN js THEN js[CustomChemPath] ELSE <<>>

(* C39: add-chemistry with a well-formed geometry returns without error
   with mapping[name] set to that geometry, whether or not the name was in
   the mapping, and with every other entry as it was, so that a Quant
   command naming that chemistry (10xv2 and 10xv3 apart) resolves it to
   Other(geometry); with a malformed geometry it returns an error and the
   files are as they were. *)
C39_AddChemistryUpdatesOneEntry ==
    [][entry.fn = "add_chemistry" =>
          LET old == Mapping(files, json)
              new == Mapping(files', json')
          IN  IF entry.geometry_ok
              THEN /\ result' = Ok
                   /\ DOMAIN new = DOMAIN old \cup {cur.name}
                   /\ new[cur.name] = cur.geometry
                   /\ \A n \in DOMAIN old \ {cur.name} : new[n] = old[n]
                   /\ cur.name \notin {"10xv2", "10xv3"} =>
                         ResolveChemistry(files', json', cur.name) = Other(cur.geometry)
              ELSE /\ result'.k = "err"
                   /\ files' = files /\ json' = json]_vars

\* a chemistry has been added to a mapping that had another one, which is
\* still there
C39_Witness ==
    /\ entry.fn = "add_chemistry" /\ pc = "done" /\ result = Ok
    /\ cur.name = "mychem"
    /\ Mapping(files, json) = [n \in {"mychem", "otherchem"} |->
                                  IF n = "mychem" THEN NewGeometry ELSE Geometry]
    /\ ResolveChemistry(files, json, "mychem") = Other(NewGeometry)

(* C40: for an Index command building a spliced+intronic reference with read
   length r, the reference file and the t2g file are named after the flank
   length r - 5, which is not negative, and the subtraction neither wraps
   around nor ends the run once the output directory has been made. *)
C40_FlankLengthIsRlenMinusFive ==
    cur.kind = "Index" /\ IsBuildingRef(cur) /\ cur.ref_type = "SplicedIntronic"
        /\ cur.rlen # NoneU =>
        /\ result # Panicked("subtract with overflow")
        /\ "ref_file" \in DOMAIN loc /\ loc.ref_file # "" =>
              /\ cur.rlen >= 5
              /\ loc.ref_file = "splici_fl" \o ToString(cur.rlen - 5) \o ".fa"
              /\ loc.splici_t2g = Join(Join(cur.output, "ref"),
                                       "splici_fl" \o ToString(cur.rlen - 5) \o "_t2g_3col.tsv")
====
